---- MODULE Spec2Model ----
(***************************************************************************)
(* Matchmaking and signaling backend (src/backend/src/index.ts).           *)
(*                                                                         *)
(* The Redis store is the shared state.  Every handler is an async         *)
(* function: it runs atomically between two awaits, so each action below   *)
(* performs ONE awaited Redis operation of one running handler followed    *)
(* by the synchronous code up to the next await (emits included).  The     *)
(* two `expire` calls only set a TTL, which is not part of the state, and  *)
(* are folded into the write they follow.                                  *)
(***************************************************************************)
EXTENDS Integers, Sequences, FiniteSets, TLC

\* ---------------------------------------------------------------- bounds
MaxTasks == 2      \* handlers that can be in flight at the same time
MaxCmds == 4       \* events per run of Spec (handlers run one at a time)
TabCmds == 3       \* events per run of SpecTabs and SpecRecon (handlers overlap)
RaceCmds == 2      \* events per run of SpecRace (handlers overlap)
MaxMatches == 3    \* match ids that can be minted per run
RlWindow == 3      \* windowMs of the rate limit configuration, in clock ticks
RlMax == 2         \* maxRequests of the rate limit configuration
RlMaxTime == 4     \* last clock value of a run of SpecLimit
RlCalls == 4       \* checkRateLimit calls per run of SpecLimit
MaxReports == 3    \* POST /api/reports requests per run of SpecReports
MaxReqs == 2       \* HTTP requests that can be in progress at once
MaxPolls == 4      \* signaling requests per run of SpecPoll
MaxRooms == 2      \* rooms the signaling route can create per run
MaxSignals == 2    \* signals stored per run of SpecSignals

\* ------------------------------------------------------- program constants
MAX_CHECKS == 50
AUTO_DISCONNECT_THRESHOLD == 3
REPORT_MAX == 5    \* RATE_LIMITS.report.maxRequests
MAX_ATTEMPTS == 5

\* --------------------------------------------------------------- universe
Sessions == {"A", "B", "C", "D"}
Conns == 1 .. 5
\* the session named by the token each connection presents
ConnSession == <<"A", "A", "B", "C", "D">>
Modes == {"casual", "hire", "freelance"}
Types == {"video"}
Tasks == 1 .. MaxTasks
MatchIds == 1 .. MaxMatches

NoSock == 0        \* socketId "" or absent
NoRoom == 0        \* matchId absent / roomId omitted
NoVal == ""        \* absent hash field or absent string

VARIABLES
    session,     \* session:<id> hashes
    socketKey,   \* socket:<id> strings
    queue,       \* queue:<mode>:<type> lists
    match,       \* match:<id> hashes
    nextMatch,   \* next fresh match id
    connState,   \* "new" | "attaching" | "open" | "closed" per connection
    tasks,       \* the handler invocations in flight
    emitted,     \* events emitted / acknowledged by the last step
    cmds,        \* events (connections, commands, disconnects) received so far
    declared,    \* (history) the intent each session last declared itself
    lastAttached, \* (history) the connection each session attached last
    rl,          \* the rate limiters: clock, stores, calls in flight, results
    web          \* the HTTP routes: their store keys, requests and responses

vars == <<session, socketKey, queue, match, nextMatch, connState, tasks,
          emitted, cmds, declared, lastAttached, rl, web>>

\* ---------------------------------------------------------------- helpers
\* the clock values of a run, and a sorted set with no member at any score
RlTimes == 0 .. RlMaxTime
NoEntries == [x \in RlTimes |-> 0]

\* the three checkRateLimit implementations: the in-memory one of the
\* frontend ("memory"), the Upstash one of the frontend ("lib") and the
\* node-redis one of the backend ("backend")
Limiters == {"memory", "lib", "backend"}
Stored == {"lib", "backend"}

\* the rate limiters of one identifier before any call: the clock at 0, the
\* rateLimits map without an entry, the sorted set ratelimit:<identifier> of
\* each store empty, redisClient null, no call in flight.  admitted counts,
\* per implementation and timestamp, the calls answered allowed = true from
\* the limiter's own count (not by failing open); everAdded counts, per store
\* and score, every member a ZADD has put into the sorted set, trimmed since
\* or not; last is the value the latest call returned, the Date.now() it had
\* captured and the return statement it took.
RlInit ==
    [now |-> 0,
     entry |-> [has |-> FALSE, count |-> 0, resetAt |-> 0],
     zset |-> [impl \in Stored |-> NoEntries],
     everAdded |-> [impl \in Stored |-> NoEntries],
     client |-> FALSE,
     pending |-> <<>>,
     calls |-> 0,
     admitted |-> [impl \in Limiters |-> NoEntries],
     last |-> [impl |-> NoVal, path |-> NoVal, at |-> 0, allowed |-> FALSE,
               remaining |-> 0, resetIn |-> 0]]

\* (mutant) every intent pairs with itself
modeMatchPairs_Same(mode) == mode

modeMatchPairs(mode) ==
    IF mode = "hire" THEN "freelance"
    ELSE IF mode = "freelance" THEN "hire"
    ELSE mode

getQueueKey(mode, connectionType) == <<mode, connectionType>>

QueueKeys == (Modes \cup {NoVal}) \X (Types \cup {"chat", NoVal})

\* LREM key 1 value: remove the first occurrence
RECURSIVE RemoveFirst(_, _)
RemoveFirst(s, v) ==
    IF s = <<>> THEN <<>>
    ELSE IF Head(s) = v THEN Tail(s)
    ELSE <<Head(s)>> \o RemoveFirst(Tail(s), v)

\* (mutant) LREM that removes nothing
RemoveAll_None(s, v) == s

\* LREM key 0 value: remove every occurrence
RECURSIVE RemoveAll(_, _)
RemoveAll(s, v) ==
    IF s = <<>> THEN <<>>
    ELSE IF Head(s) = v THEN RemoveAll(Tail(s), v)
    ELSE <<Head(s)>> \o RemoveAll(Tail(s), v)

\* the sequence s holds the value v
Holds(s, v) == \E k \in 1 .. Len(s) : s[k] = v

Occurs(s, v) == Cardinality({k \in 1 .. Len(s) : s[k] = v})

\* LINDEX key i (0-based); NoVal when out of range
LIndex(s, i) == IF i + 1 <= Len(s) THEN s[i + 1] ELSE NoVal

\* participants.find((p) => p !== sessionId)
FindOther(parts, sid) ==
    IF \E k \in 1 .. Len(parts) : parts[k] # sid
    THEN parts[CHOOSE k \in 1 .. Len(parts) :
                 /\ parts[k] # sid
                 /\ \A j \in 1 .. (k - 1) : parts[j] = sid]
    ELSE NoVal

NoSession ==
    [socketId |-> NoSock, mode |-> NoVal, connectionType |-> NoVal,
     inQueue |-> NoVal, matchId |-> NoRoom, peerId |-> NoVal]

\* createSession(): socketId "", inQueue "false"
NewSession == [NoSession EXCEPT !.inQueue = "false"]

NoMatch ==
    [participants |-> <<>>, mode |-> NoVal, connectionType |-> NoVal,
     initiatorId |-> NoVal, declaredAtMint |-> <<>>]

\* the locals of a handler invocation; evals counts the queue entries the
\* running findMatch has read so far
IdleTask ==
    [kind |-> "idle", pc |-> "idle", conn |-> 0, sid |-> NoVal,
     mode |-> NoVal, ctype |-> NoVal, roomId |-> NoRoom, targetId |-> NoVal,
     ctx |-> NoVal, i |-> 0, qlen |-> 0, evals |-> 0, cand |-> NoVal,
     mid |-> NoRoom,
     parts |-> <<>>, k |-> 0,
     peer |-> NoVal, peerSock |-> NoSock, peerMode |-> NoVal, peerType |-> NoVal,
     sdMatch |-> NoRoom, sdMode |-> NoVal, sdType |-> NoVal, sdInQ |-> NoVal,
     arrivedStale |-> FALSE, staleRead |-> FALSE]

Idle(t) == tasks[t].kind = "idle"
AllIdle == \A t \in Tasks : Idle(t)

\* a new handler invocation takes the lowest free slot
FreeSlot(t) == Idle(t) /\ \A u \in Tasks : u < t => ~Idle(u)

\* the binding the session record holds when a handler for connection c starts
BoundElsewhere(c) ==
    /\ session[ConnSession[c]].socketId # NoSock
    /\ session[ConnSession[c]].socketId # c

Ev(type, to, room, peer, init, from) ==
    [type |-> type, to |-> to, roomId |-> room, peerId |-> peer,
     isInitiator |-> init, fromId |-> from]

\* the slots of HTTP requests in progress
ReqSlots == 1 .. MaxReqs

\* a slot with no request in it
IdleReq ==
    [pc |-> "idle", reporter |-> NoVal, target |-> NoVal, complete |-> FALSE,
     id |-> 0, read |-> 0]

NoResp == [status |-> 0, error |-> NoVal, auto |-> FALSE, nth |-> 0]

\* the queue keys and room ids of the signaling route
PollKeys == Modes \X Types
RoomIds == 1 .. MaxRooms

\* no room:<id> key / no match:<session> key
NoPollRoom ==
    [participants |-> <<>>, mode |-> NoVal, type |-> NoVal,
     initiatorId |-> NoVal, intents |-> <<>>]

NoNote == [kind |-> NoVal, roomId |-> NoRoom, peerId |-> NoVal]

NoRequeue == [peer |-> NoVal, mode |-> NoVal, type |-> NoVal, room |-> NoRoom,
              roomType |-> NoVal]

\* a slot with no signaling request in it
IdlePoll ==
    [pc |-> "idle", action |-> NoVal, sid |-> NoVal, roomId |-> NoRoom,
     targetId |-> NoVal, signals |-> <<>>]

NoAnswer == [status |-> 0, to |-> NoVal, signals |-> <<>>, peerLeft |-> FALSE]

\* the report route before any request: reports:list and the report:<id>
\* records empty, every session record with reportCount 0, no reported:<s>
\* counter, no check counted by the limiter under report:<reporter>.
\* accepted counts, per target, the reports whose INCR ran since the counter
\* reported:<target> last did not exist; sent counts the requests of the run;
\* resp is the latest response.
\* The signaling route before any request: the queue:<mode>:<type> lists
\* (pq) empty, no room:<id>, session:<s>:room, heartbeat:<s> or match:<s>
\* key (note).  A room record carries, besides its stored fields, the
\* intents its two participants had declared when it was created; intent is
\* the mode each session sent last, requeued the latest re-queue of an
\* abandoned counterparty, polled the number of requests of the run.
\* signals holds the signals:<room>:<session> lists, a stored signal written
\* as its number; delivered counts, per signal, the get-signals responses
\* that carried it; answer is the latest get-signals or signal response.
WebInit ==
    [reports |-> <<>>,
     byId |-> {},
     nextReport |-> 1,
     reportCount |-> [s \in Sessions |-> 0],
     reported |-> [s \in Sessions |-> 0],
     ttl |-> [s \in Sessions |-> FALSE],
     checks |-> [s \in Sessions |-> 0],
     accepted |-> [s \in Sessions |-> 0],
     reqs |-> [r \in ReqSlots |-> IdleReq],
     sent |-> 0,
     resp |-> NoResp,
     pq |-> [q \in PollKeys |-> <<>>],
     room |-> [m \in RoomIds |-> NoPollRoom],
     nextRoom |-> 1,
     sessionRoom |-> [s \in Sessions |-> NoRoom],
     heartbeat |-> [s \in Sessions |-> FALSE],
     note |-> [s \in Sessions |-> NoNote],
     intent |-> [s \in Sessions |-> NoVal],
     requeued |-> NoRequeue,
     polled |-> 0,
     signals |-> [k \in RoomIds \X Sessions |-> <<>>],
     nextSignal |-> 1,
     delivered |-> [i \in 1 .. MaxSignals |-> 0],
     polls |-> [r \in ReqSlots |-> IdlePoll],
     answer |-> NoAnswer]

\* ------------------------------------------------------------------- Init
\* The server with the connections in `open` attached (each by a completed
\* io.on("connection") handler, at most one per session) and nothing else done.
OpenConnOf(s, open) ==
    IF \E c \in open : ConnSession[c] = s
    THEN CHOOSE c \in open : ConnSession[c] = s
    ELSE NoSock

InitWith(open) ==
    /\ session = [s \in Sessions |->
                    [NewSession EXCEPT !.socketId = OpenConnOf(s, open)]]
    /\ socketKey = [c \in Conns |-> IF c \in open THEN ConnSession[c] ELSE NoVal]
    /\ queue = [q \in QueueKeys |-> <<>>]
    /\ match = [m \in MatchIds |-> NoMatch]
    /\ nextMatch = 1
    /\ connState = [c \in Conns |-> IF c \in open THEN "open" ELSE "new"]
    /\ tasks = [t \in Tasks |-> IdleTask]
    /\ emitted = <<>>
    /\ cmds = 0
    /\ declared = [s \in Sessions |-> NoVal]
    /\ lastAttached = [s \in Sessions |-> OpenConnOf(s, open)]
    /\ rl = RlInit
    /\ web = WebInit

\* A, B and C each hold one attached connection
Init == InitWith({1, 3, 4})

\* the same with the HTTP routes' keys holding w
InitAt(w) ==
    /\ session = [s \in Sessions |->
                    [NewSession EXCEPT !.socketId = OpenConnOf(s, {1, 3, 4})]]
    /\ socketKey = [c \in Conns |->
                      IF c \in {1, 3, 4} THEN ConnSession[c] ELSE NoVal]
    /\ queue = [q \in QueueKeys |-> <<>>]
    /\ match = [m \in MatchIds |-> NoMatch]
    /\ nextMatch = 1
    /\ connState = [c \in Conns |-> IF c \in {1, 3, 4} THEN "open" ELSE "new"]
    /\ tasks = [t \in Tasks |-> IdleTask]
    /\ emitted = <<>>
    /\ cmds = 0
    /\ declared = [s \in Sessions |-> NoVal]
    /\ lastAttached = [s \in Sessions |-> OpenConnOf(s, {1, 3, 4})]
    /\ rl = RlInit
    /\ web = w

\* The state Spec reaches when A has joined casual/video on connection 1 and
\* waited, and B has joined casual/video on connection 3 and been matched with
\* A in room 1.  A's second connection (2) has not been opened yet.
InitTabs ==
    /\ session = [s \in Sessions |->
         CASE s = "A" -> [socketId |-> 1, mode |-> "casual",
                          connectionType |-> "video", inQueue |-> "false",
                          matchId |-> 1, peerId |-> "B"]
           [] s = "B" -> [NewSession EXCEPT !.socketId = 3, !.matchId = 1,
                                            !.peerId = "A"]
           [] s = "C" -> [NewSession EXCEPT !.socketId = 4]
           [] OTHER -> NewSession]
    /\ socketKey = [c \in Conns |->
                      IF c \in {2, 5} THEN NoVal ELSE ConnSession[c]]
    /\ queue = [q \in QueueKeys |-> <<>>]
    /\ match = [m \in MatchIds |->
         IF m = 1
         THEN [participants |-> <<"A", "B">>, mode |-> "casual",
               connectionType |-> "video", initiatorId |-> "B",
               declaredAtMint |-> <<"casual", "casual">>]
         ELSE NoMatch]
    /\ nextMatch = 2
    /\ connState = [c \in Conns |-> IF c \in {2, 5} THEN "new" ELSE "open"]
    /\ tasks = [t \in Tasks |-> IdleTask]
    /\ emitted = <<>>
    /\ cmds = 0
    /\ declared = [s \in Sessions |->
                     IF s \in {"A", "B"} THEN "casual" ELSE NoVal]
    /\ lastAttached = [s \in Sessions |-> OpenConnOf(s, {1, 3, 4})]
    /\ rl = RlInit
    /\ web = WebInit

\* The state Spec reaches from there when C has then joined casual/video on
\* connection 4: it skipped nobody (the queue was empty) and waits.
InitRace ==
    /\ session = [s \in Sessions |->
         CASE s = "A" -> [socketId |-> 1, mode |-> "casual",
                          connectionType |-> "video", inQueue |-> "false",
                          matchId |-> 1, peerId |-> "B"]
           [] s = "B" -> [NewSession EXCEPT !.socketId = 3, !.matchId = 1,
                                            !.peerId = "A"]
           [] s = "C" -> [socketId |-> 4, mode |-> "casual",
                          connectionType |-> "video", inQueue |-> "true",
                          matchId |-> NoRoom, peerId |-> NoVal]
           [] OTHER -> NewSession]
    /\ socketKey = [c \in Conns |->
                      IF c \in {2, 5} THEN NoVal ELSE ConnSession[c]]
    /\ queue = [q \in QueueKeys |->
         IF q = <<"casual", "video">> THEN <<"C">> ELSE <<>>]
    /\ match = [m \in MatchIds |->
         IF m = 1
         THEN [participants |-> <<"A", "B">>, mode |-> "casual",
               connectionType |-> "video", initiatorId |-> "B",
               declaredAtMint |-> <<"casual", "casual">>]
         ELSE NoMatch]
    /\ nextMatch = 2
    /\ connState = [c \in Conns |-> IF c \in {2, 5} THEN "new" ELSE "open"]
    /\ tasks = [t \in Tasks |-> IdleTask]
    /\ emitted = <<>>
    /\ cmds = 0
    /\ declared = [s \in Sessions |-> IF s = "D" THEN NoVal ELSE "casual"]
    /\ lastAttached = [s \in Sessions |-> OpenConnOf(s, {1, 3, 4})]
    /\ rl = RlInit
    /\ web = WebInit

\* The state Spec reaches when A, B and C have joined freelance/video in this
\* order: nobody is in the hire queue, so the three wait in one queue.
InitFifo ==
    /\ session = [s \in Sessions |->
         IF s = "D" THEN NewSession
         ELSE [socketId |-> OpenConnOf(s, {1, 3, 4}), mode |-> "freelance",
               connectionType |-> "video", inQueue |-> "true",
               matchId |-> NoRoom, peerId |-> NoVal]]
    /\ socketKey = [c \in Conns |->
                      IF c \in {2, 5} THEN NoVal ELSE ConnSession[c]]
    /\ queue = [q \in QueueKeys |->
         IF q = <<"freelance", "video">> THEN <<"A", "B", "C">> ELSE <<>>]
    /\ match = [m \in MatchIds |-> NoMatch]
    /\ nextMatch = 1
    /\ connState = [c \in Conns |-> IF c \in {2, 5} THEN "new" ELSE "open"]
    /\ tasks = [t \in Tasks |-> IdleTask]
    /\ emitted = <<>>
    /\ cmds = 0
    /\ declared = [s \in Sessions |-> IF s = "D" THEN NoVal ELSE "freelance"]
    /\ lastAttached = [s \in Sessions |-> OpenConnOf(s, {1, 3, 4})]
    /\ rl = RlInit
    /\ web = WebInit

\* ----------------------------------------------- the arguments of findMatch
\* and addToQueue in the four places they are called from:
\*   ctx "join"   handleJoinQueue, for the caller
\*   ctx "self"   handleNext, for the caller
\*   ctx "peer"   handleNext, for the skipped counterparty
\*   ctx "lvpeer" handleLeave, for the abandoned counterparty
ForCaller(tk) == tk.ctx \in {"join", "self"}
ArgSid(tk) == IF ForCaller(tk) THEN tk.sid ELSE tk.peer
ArgMode(tk) == IF ForCaller(tk) THEN tk.mode ELSE tk.peerMode
ArgType(tk) == IF ForCaller(tk) THEN tk.ctype ELSE tk.peerType
ArgSock(tk) == IF ForCaller(tk) THEN tk.conn ELSE tk.peerSock

TargetKey(tk) == getQueueKey(modeMatchPairs(ArgMode(tk)), ArgType(tk))
OwnKey(tk) == getQueueKey(ArgMode(tk), ArgType(tk))

\* findMatch returned: a match (found) or null
AfterFind(tk, found) ==
    IF found
    THEN [tk EXCEPT !.pc = CASE tk.ctx = "join" -> "jq_peer"
                            [] tk.ctx = "self" -> "nx_self_peer"
                            [] tk.ctx = "peer" -> "nx_newpeer"
                            [] OTHER -> "lv_newpeer"]
    ELSE [tk EXCEPT !.pc = "aq_hset", !.i = 0, !.qlen = 0, !.evals = 0,
                    !.cand = NoVal]

\* while (i < queueLength && i < MAX_CHECKS)
LoopHead(tk) ==
    IF tk.i < tk.qlen /\ tk.i < MAX_CHECKS
    THEN [tk EXCEPT !.pc = "fm_index", !.cand = NoVal]
    ELSE AfterFind(tk, FALSE)

\* entry of findMatch
CallFind(tk, ctx) ==
    [tk EXCEPT !.ctx = ctx, !.pc = "fm_len", !.i = 0, !.qlen = 0, !.evals = 0,
               !.cand = NoVal, !.mid = NoRoom]


SetTask(t, tk) == tasks' = [tasks EXCEPT ![t] = tk]
Finish(t) == tasks' = [tasks EXCEPT ![t] = IdleTask]
At(t, pc) == tasks[t].pc = pc

\* (mutant) an LREM that reports a removal whether or not it removed an entry
LRemCount_AlwaysOne(s, v) == 1

\* LREM key 1 value returns the number of removed elements
LRemCount(s, v) == IF Occurs(s, v) > 0 THEN 1 ELSE 0

\* ------------------------------------------- io.on("connection") (761-772)
StartAttach(t, c) ==
    /\ FreeSlot(t)
    /\ cmds' = cmds + 1
    /\ connState[c] = "new"
    /\ connState' = [connState EXCEPT ![c] = "attaching"]
    /\ lastAttached' = [lastAttached EXCEPT ![ConnSession[c]] = c]
    /\ SetTask(t, [IdleTask EXCEPT !.kind = "attach", !.pc = "at_set",
                                   !.conn = c, !.sid = ConnSession[c]])
    /\ emitted' = <<>>
    /\ UNCHANGED <<session, socketKey, queue, match, nextMatch, declared, rl, web>>

\* redisClient.set(getSocketKey(socket.id), sessionId)
AtSet(t) ==
    /\ At(t, "at_set")
    /\ socketKey' = [socketKey EXCEPT ![tasks[t].conn] = tasks[t].sid]
    /\ SetTask(t, [tasks[t] EXCEPT !.pc = "at_hset"])
    /\ emitted' = <<>>
    /\ UNCHANGED <<session, queue, match, nextMatch, connState, cmds, declared,
                   lastAttached, rl, web>>

\* redisClient.hSet(getSessionKey(sessionId), { socketId: socket.id }); the
\* event handlers are registered after it
AtHset(t) ==
    /\ At(t, "at_hset")
    /\ session' = [session EXCEPT ![tasks[t].sid].socketId = tasks[t].conn]
    /\ connState' = [connState EXCEPT ![tasks[t].conn] = "open"]
    /\ Finish(t)
    /\ emitted' = <<>>
    /\ UNCHANGED <<socketKey, queue, match, nextMatch, cmds, declared,
                   lastAttached, rl, web>>

\* ------------------------------------------------------ findMatch (257-344)
\* let queueLength = await redisClient.lLen(queueKey)
FmLen(t) ==
    /\ At(t, "fm_len")
    /\ SetTask(t, LoopHead([tasks[t] EXCEPT
                     !.qlen = Len(queue[TargetKey(tasks[t])])]))
    /\ emitted' = <<>>
    /\ UNCHANGED <<session, socketKey, queue, match, nextMatch, connState,
                   cmds, declared, lastAttached, rl, web>>

\* (mutant) the entry read is taken as the candidate even when it is the
\* caller's own
FmIndex_NoSelfSkip(t) ==
    /\ At(t, "fm_index")
    /\ LET tk == tasks[t]
           peerId == LIndex(queue[TargetKey(tk)], tk.i)
       IN SetTask(t, IF peerId = NoVal THEN AfterFind(tk, FALSE)
                     ELSE [tk EXCEPT !.cand = peerId, !.pc = "fm_peer",
                                     !.evals = tk.evals + 1])
    /\ emitted' = <<>>
    /\ UNCHANGED <<session, socketKey, queue, match, nextMatch, connState,
                   cmds, declared, lastAttached, rl, web>>

\* const peerId = await redisClient.lIndex(queueKey, i)
FmIndex(t) ==
    /\ At(t, "fm_index")
    /\ LET tk == tasks[t]
           peerId == LIndex(queue[TargetKey(tk)], tk.i)
       IN SetTask(t, IF peerId = NoVal THEN AfterFind(tk, FALSE)
                     ELSE IF peerId = ArgSid(tk)
                          THEN LoopHead([tk EXCEPT !.i = tk.i + 1,
                                                   !.evals = tk.evals + 1])
                     ELSE [tk EXCEPT !.cand = peerId, !.pc = "fm_peer",
                                     !.evals = tk.evals + 1])
    /\ emitted' = <<>>
    /\ UNCHANGED <<session, socketKey, queue, match, nextMatch, connState,
                   cmds, declared, lastAttached, rl, web>>

\* (mutant) no queue entry is ever judged stale
StaleEntry_Never(peerData) == FALSE

\* if (!peerData.socketId || peerData.inQueue !== "true")
StaleEntry(peerData) == peerData.socketId = NoSock \/ peerData.inQueue # "true"

\* const peerData = await redisClient.hGetAll(getSessionKey(peerId))
FmPeer(t) ==
    /\ At(t, "fm_peer")
    /\ SetTask(t, [tasks[t] EXCEPT !.pc =
                     IF StaleEntry(session[tasks[t].cand])
                     THEN "fm_stale_rem" ELSE "fm_claim"])
    /\ emitted' = <<>>
    /\ UNCHANGED <<session, socketKey, queue, match, nextMatch, connState,
                   cmds, declared, lastAttached, rl, web>>

\* stale entry: await redisClient.lRem(queueKey, 1, peerId)
FmStaleRem(t) ==
    /\ At(t, "fm_stale_rem")
    /\ queue' = [queue EXCEPT ![TargetKey(tasks[t])] =
                     RemoveFirst(@, tasks[t].cand)]
    /\ SetTask(t, [tasks[t] EXCEPT !.pc = "fm_stale_len"])
    /\ emitted' = <<>>
    /\ UNCHANGED <<session, socketKey, match, nextMatch, connState, cmds,
                   declared, lastAttached, rl, web>>

\* queueLength = await redisClient.lLen(queueKey); continue
FmStaleLen(t) ==
    /\ At(t, "fm_stale_len")
    /\ SetTask(t, LoopHead([tasks[t] EXCEPT
                     !.qlen = Len(queue[TargetKey(tasks[t])])]))
    /\ emitted' = <<>>
    /\ UNCHANGED <<session, socketKey, queue, match, nextMatch, connState,
                   cmds, declared, lastAttached, rl, web>>

\* const removed = await redisClient.lRem(queueKey, 1, peerId); on success the
\* match id is generated
FmClaim(t) ==
    /\ At(t, "fm_claim")
    /\ LET tk == tasks[t]
           removed == LRemCount(queue[TargetKey(tk)], tk.cand)
       IN /\ queue' = [queue EXCEPT ![TargetKey(tk)] = RemoveFirst(@, tk.cand)]
          /\ IF removed = 0
             THEN /\ SetTask(t, [tk EXCEPT !.pc = "fm_fail_len"])
                  /\ UNCHANGED nextMatch
             ELSE /\ nextMatch <= MaxMatches
                  /\ SetTask(t, [tk EXCEPT !.pc = "fm_hset_match",
                                           !.mid = nextMatch])
                  /\ nextMatch' = nextMatch + 1
    /\ emitted' = <<>>
    /\ UNCHANGED <<session, socketKey, match, connState, cmds, declared,
                   lastAttached, rl, web>>

\* removed === 0: queueLength = await redisClient.lLen(queueKey); continue
FmFailLen(t) ==
    /\ At(t, "fm_fail_len")
    /\ SetTask(t, LoopHead([tasks[t] EXCEPT
                     !.qlen = Len(queue[TargetKey(tasks[t])])]))
    /\ emitted' = <<>>
    /\ UNCHANGED <<session, socketKey, queue, match, nextMatch, connState,
                   cmds, declared, lastAttached, rl, web>>

\* (mutant) a match whose initiator is the candidate taken from the queue
NewMatch_PeerInitiates(peerId, sessionId, mode, connectionType) ==
    [participants |-> <<peerId, sessionId>>,
     mode |-> modeMatchPairs(mode),
     connectionType |-> connectionType,
     initiatorId |-> peerId,
     declaredAtMint |-> <<declared[peerId], declared[sessionId]>>]

\* the match object built at 308-315
NewMatch(peerId, sessionId, mode, connectionType) ==
    [participants |-> <<peerId, sessionId>>,
     mode |-> modeMatchPairs(mode),
     connectionType |-> connectionType,
     initiatorId |-> sessionId,
     declaredAtMint |-> <<declared[peerId], declared[sessionId]>>]

\* await redisClient.hSet(getMatchKey(matchId), {...}) and expire
FmHsetMatch(t) ==
    /\ At(t, "fm_hset_match")
    /\ LET tk == tasks[t]
       IN match' = [match EXCEPT ![tk.mid] =
                      NewMatch(tk.cand, ArgSid(tk), ArgMode(tk), ArgType(tk))]
    /\ SetTask(t, [tasks[t] EXCEPT !.pc = "fm_hset_self"])
    /\ emitted' = <<>>
    /\ UNCHANGED <<session, socketKey, queue, nextMatch, connState, cmds,
                   declared, lastAttached, rl, web>>

\* await redisClient.hSet(getSessionKey(sessionId), { matchId, peerId, inQueue })
FmHsetSelf(t) ==
    /\ At(t, "fm_hset_self")
    /\ LET tk == tasks[t]
       IN session' = [session EXCEPT ![ArgSid(tk)] =
                        [@ EXCEPT !.matchId = tk.mid, !.peerId = tk.cand,
                                  !.inQueue = "false"]]
    /\ SetTask(t, [tasks[t] EXCEPT !.pc = "fm_hset_cand"])
    /\ emitted' = <<>>
    /\ UNCHANGED <<socketKey, queue, match, nextMatch, connState, cmds,
                   declared, lastAttached, rl, web>>

\* await redisClient.hSet(getSessionKey(peerId), {...}); return match
FmHsetCand(t) ==
    /\ At(t, "fm_hset_cand")
    /\ LET tk == tasks[t]
       IN session' = [session EXCEPT ![tk.cand] =
                        [@ EXCEPT !.matchId = tk.mid, !.peerId = ArgSid(tk),
                                  !.inQueue = "false"]]
    /\ SetTask(t, AfterFind(tasks[t], TRUE))
    /\ emitted' = <<>>
    /\ UNCHANGED <<socketKey, queue, match, nextMatch, connState, cmds,
                   declared, lastAttached, rl, web>>


\* -------------------------------------------------- continuations (sync code)
DropFind(tk) ==
    [tk EXCEPT !.i = 0, !.qlen = 0, !.evals = 0, !.cand = NoVal,
               !.mid = NoRoom]

DropPeer(tk) ==
    [DropFind(tk) EXCEPT !.peer = NoVal, !.peerSock = NoSock,
                         !.peerMode = NoVal, !.peerType = NoVal,
                         !.parts = <<>>, !.k = 0]

\* handleLeave/handleDisconnect are over
LeaveDone(tk) ==
    IF tk.kind = "disconnect"
    THEN [DropPeer(tk) EXCEPT !.pc = "dc_del", !.ctx = NoVal, !.roomId = NoRoom,
                              !.sdMatch = NoRoom, !.sdMode = NoVal,
                              !.sdType = NoVal, !.sdInQ = NoVal]
    ELSE [IdleTask EXCEPT !.kind = "acked", !.conn = tk.conn]

\* handleLeave 581-587
LeaveTail(tk) ==
    IF tk.sdMode # NoVal /\ tk.sdType # NoVal /\ tk.sdInQ = "true"
    THEN [DropPeer(tk) EXCEPT !.pc = "rq_lrem", !.ctx = NoVal]
    ELSE LeaveDone(tk)

\* the counterparty has been dealt with (or there is none)
PeerDone(tk) ==
    IF tk.kind = "next" THEN CallFind(DropPeer(tk), "self") ELSE LeaveTail(tk)

\* destroyMatch returned participants: participants.find((p) => p !== sessionId)
AfterDestroy(tk, participants) ==
    LET peerId == FindOther(participants, tk.sid)
    IN IF peerId # NoVal
       THEN [tk EXCEPT !.pc = "pd_get", !.peer = peerId, !.parts = <<>>, !.k = 0]
       ELSE PeerDone(tk)

\* a finished handler leaves its slot; its acknowledgement is in `emitted`
Settle(tk) == IF tk.kind = "acked" THEN IdleTask ELSE tk
AckLeave(tk) ==
    IF tk.kind = "acked"
    THEN <<Ev("ack-leave", tk.conn, NoRoom, NoVal, FALSE, NoVal)>> ELSE <<>>

\* ------------------------------------------------ handleJoinQueue (363-413)
StartJoin(t, c, m, ty) ==
    /\ FreeSlot(t)
    /\ connState[c] = "open"
    /\ cmds' = cmds + 1
    /\ declared' = [declared EXCEPT ![ConnSession[c]] = m]
    /\ SetTask(t, CallFind([IdleTask EXCEPT
                     !.kind = "join", !.conn = c, !.sid = ConnSession[c],
                     !.mode = m, !.ctype = ty,
                     !.arrivedStale = BoundElsewhere(c)], "join"))
    /\ emitted' = <<>>
    /\ UNCHANGED <<session, socketKey, queue, match, nextMatch, connState,
                   lastAttached, rl, web>>

\* const peerData = await redisClient.hGetAll(getSessionKey(peerId)); notify
\* the peer and answer the caller
JqPeer(t) ==
    /\ At(t, "jq_peer")
    /\ LET tk == tasks[t]
       IN emitted' =
            << Ev("matched", session[tk.cand].socketId, tk.mid, tk.sid, FALSE, NoVal),
               Ev("ack-matched", tk.conn, tk.mid, tk.cand, TRUE, NoVal) >>
    /\ Finish(t)
    /\ UNCHANGED <<session, socketKey, queue, match, nextMatch, connState,
                   cmds, declared, lastAttached, rl, web>>

\* ----------------------------------------------------- addToQueue (232-249)
\* await redisClient.hSet(getSessionKey(entry.sessionId), {...})
AqHset(t) ==
    /\ At(t, "aq_hset")
    /\ LET tk == tasks[t]
       IN session' = [session EXCEPT ![ArgSid(tk)] =
                        [@ EXCEPT !.socketId = ArgSock(tk),
                                  !.mode = ArgMode(tk),
                                  !.connectionType = ArgType(tk),
                                  !.inQueue = "true"]]
    /\ SetTask(t, [tasks[t] EXCEPT !.pc = "aq_set"])
    /\ emitted' = <<>>
    /\ UNCHANGED <<socketKey, queue, match, nextMatch, connState, cmds,
                   declared, lastAttached, rl, web>>

\* await redisClient.set(getSocketKey(entry.socketId), entry.sessionId)
AqSet(t) ==
    /\ At(t, "aq_set")
    /\ socketKey' = [socketKey EXCEPT ![ArgSock(tasks[t])] = ArgSid(tasks[t])]
    /\ SetTask(t, [tasks[t] EXCEPT !.pc = "aq_push"])
    /\ emitted' = <<>>
    /\ UNCHANGED <<session, queue, match, nextMatch, connState, cmds, declared,
                   lastAttached, rl, web>>

\* await redisClient.rPush(queueKey, entry.sessionId), then the caller goes on
AqPush(t) ==
    /\ At(t, "aq_push")
    /\ LET tk == tasks[t]
       IN /\ queue' = [queue EXCEPT ![OwnKey(tk)] = Append(@, ArgSid(tk))]
          /\ IF ForCaller(tk)
             THEN /\ Finish(t)
                  /\ emitted' = <<Ev("ack-waiting", tk.conn, NoRoom, NoVal,
                                     FALSE, NoVal)>>
             ELSE /\ SetTask(t, Settle(PeerDone(tk)))
                  /\ emitted' = AckLeave(PeerDone(tk))
    /\ UNCHANGED <<session, socketKey, match, nextMatch, connState, cmds,
                   declared, lastAttached, rl, web>>

\* --------------------------------------------------- destroyMatch (346-361)
\* (mutant) reading a deleted match record returns its old participants
MatchData_Phantom(r) ==
    IF r \in MatchIds /\ match[r] # NoMatch THEN match[r]
    ELSE [NoMatch EXCEPT !.participants = <<"A", "B">>]

MatchData(r) == IF r \in MatchIds THEN match[r] ELSE NoMatch

\* const matchData = await redisClient.hGetAll(getMatchKey(matchId))
DmGet(t) ==
    /\ At(t, "dm_get")
    /\ LET tk == tasks[t]
           matchData == MatchData(tk.roomId)
           nxt == IF matchData.participants = <<>>
                  THEN AfterDestroy(tk, <<>>)
                  ELSE [tk EXCEPT !.pc = "dm_hdel",
                                  !.parts = matchData.participants, !.k = 1]
       IN /\ SetTask(t, Settle(nxt))
          /\ emitted' = AckLeave(nxt)
    /\ UNCHANGED <<session, socketKey, queue, match, nextMatch, connState,
                   cmds, declared, lastAttached, rl, web>>

\* await redisClient.hDel(getSessionKey(sessionId), ["matchId", "peerId"])
DmHdel(t) ==
    /\ At(t, "dm_hdel")
    /\ LET tk == tasks[t]
       IN /\ session' = [session EXCEPT ![tk.parts[tk.k]] =
                           [@ EXCEPT !.matchId = NoRoom, !.peerId = NoVal]]
          /\ SetTask(t, IF tk.k < Len(tk.parts)
                        THEN [tk EXCEPT !.k = tk.k + 1]
                        ELSE [tk EXCEPT !.pc = "dm_del"])
    /\ emitted' = <<>>
    /\ UNCHANGED <<socketKey, queue, match, nextMatch, connState, cmds,
                   declared, lastAttached, rl, web>>

\* await redisClient.del(getMatchKey(matchId)); return participants
DmDel(t) ==
    /\ At(t, "dm_del")
    /\ match' = [match EXCEPT ![tasks[t].roomId] = NoMatch]
    /\ SetTask(t, AfterDestroy(tasks[t], tasks[t].parts))
    /\ emitted' = <<>>
    /\ UNCHANGED <<session, socketKey, queue, nextMatch, connState, cmds,
                   declared, lastAttached, rl, web>>

\* ------------------- the abandoned counterparty (426-437 and 531-542)
\* (mutant) the counterparty is rematched or re-queued without being told
PdGet_Silent(t) ==
    /\ At(t, "pd_get")
    /\ LET tk == tasks[t]
           peerData == session[tk.peer]
           own == IF tk.kind = "next" THEN <<tk.mode, tk.ctype>>
                  ELSE <<tk.sdMode, tk.sdType>>
           nxt == IF peerData.socketId # NoSock
                  THEN CallFind([tk EXCEPT
                         !.peerSock = peerData.socketId,
                         !.peerMode = IF peerData.mode # NoVal
                                      THEN peerData.mode ELSE own[1],
                         !.peerType = IF peerData.connectionType # NoVal
                                      THEN peerData.connectionType ELSE own[2]],
                         IF tk.kind = "next" THEN "peer" ELSE "lvpeer")
                  ELSE PeerDone(tk)
       IN /\ SetTask(t, Settle(nxt))
          /\ emitted' = IF peerData.socketId # NoSock THEN <<>> ELSE AckLeave(nxt)
    /\ UNCHANGED <<session, socketKey, queue, match, nextMatch, connState,
                   cmds, declared, lastAttached, rl, web>>

\* const peerData = await redisClient.hGetAll(getSessionKey(peerId))
PdGet(t) ==
    /\ At(t, "pd_get")
    /\ LET tk == tasks[t]
           peerData == session[tk.peer]
           own == IF tk.kind = "next" THEN <<tk.mode, tk.ctype>>
                  ELSE <<tk.sdMode, tk.sdType>>
           nxt == IF peerData.socketId # NoSock
                  THEN CallFind([tk EXCEPT
                         !.peerSock = peerData.socketId,
                         !.peerMode = IF peerData.mode # NoVal
                                      THEN peerData.mode ELSE own[1],
                         !.peerType = IF peerData.connectionType # NoVal
                                      THEN peerData.connectionType ELSE own[2]],
                         IF tk.kind = "next" THEN "peer" ELSE "lvpeer")
                  ELSE PeerDone(tk)
       IN /\ SetTask(t, Settle(nxt))
          /\ emitted' =
               IF peerData.socketId # NoSock
               THEN <<Ev(IF tk.kind = "next" THEN "peer-skipped" ELSE "peer-left",
                         peerData.socketId, NoRoom, NoVal, FALSE, NoVal)>>
               ELSE AckLeave(nxt)
    /\ UNCHANGED <<session, socketKey, queue, match, nextMatch, connState,
                   cmds, declared, lastAttached, rl, web>>

\* (mutant) the rematched counterparty's new peer is told it initiates too
RematchedPeer_BothInitiate(t) ==
    LET tk == tasks[t]
    IN /\ SetTask(t, Settle(PeerDone(tk)))
       /\ emitted' =
            << Ev("matched", tk.peerSock, tk.mid, tk.cand, TRUE, NoVal),
               Ev("matched", session[tk.cand].socketId, tk.mid, tk.peer, TRUE,
                  NoVal) >> \o AckLeave(PeerDone(tk))
       /\ UNCHANGED <<session, socketKey, queue, match, nextMatch, connState,
                      cmds, declared, lastAttached, rl, web>>

\* the counterparty was rematched: const newPeerData = await
\* redisClient.hGetAll(getSessionKey(newPeerId)); both are told (438-461, 544-567)
RematchedPeer(t) ==
    LET tk == tasks[t]
    IN /\ SetTask(t, Settle(PeerDone(tk)))
       /\ emitted' =
            << Ev("matched", tk.peerSock, tk.mid, tk.cand, TRUE, NoVal),
               Ev("matched", session[tk.cand].socketId, tk.mid, tk.peer, FALSE,
                  NoVal) >> \o AckLeave(PeerDone(tk))
       /\ UNCHANGED <<session, socketKey, queue, match, nextMatch, connState,
                      cmds, declared, lastAttached, rl, web>>

NxNewPeer(t) == At(t, "nx_newpeer") /\ RematchedPeer(t)

LvNewPeer(t) == At(t, "lv_newpeer") /\ RematchedPeer(t)


\* the room ids a client can name: omitted, or any id minted so far
KnownRooms == 0 .. (nextMatch - 1)

\* ------------------------------------------------------ handleNext (415-516)
StartNext(t, c, r, m, ty) ==
    /\ FreeSlot(t)
    /\ connState[c] = "open"
    /\ cmds' = cmds + 1
    /\ declared' = [declared EXCEPT ![ConnSession[c]] = m]
    /\ SetTask(t, [IdleTask EXCEPT
                     !.kind = "next", !.pc = "dm_get", !.conn = c,
                     !.sid = ConnSession[c], !.roomId = r, !.mode = m,
                     !.ctype = ty, !.arrivedStale = BoundElsewhere(c)])
    /\ emitted' = <<>>
    /\ UNCHANGED <<session, socketKey, queue, match, nextMatch, connState,
                   lastAttached, rl, web>>

\* the caller was rematched: const peerData = await redisClient.hGetAll(...)
NxSelfPeer(t) ==
    /\ At(t, "nx_self_peer")
    /\ LET tk == tasks[t]
       IN emitted' =
            << Ev("matched", session[tk.cand].socketId, tk.mid, tk.sid, FALSE, NoVal),
               Ev("ack-matched", tk.conn, tk.mid, tk.cand, TRUE, NoVal) >>
    /\ Finish(t)
    /\ UNCHANGED <<session, socketKey, queue, match, nextMatch, connState,
                   cmds, declared, lastAttached, rl, web>>

\* ----------------------------------------------------- handleLeave (518-588)
StartLeave(t, c) ==
    /\ FreeSlot(t)
    /\ connState[c] = "open"
    /\ cmds' = cmds + 1
    /\ SetTask(t, [IdleTask EXCEPT
                     !.kind = "leave", !.pc = "lv_read", !.conn = c,
                     !.sid = ConnSession[c],
                     !.arrivedStale = BoundElsewhere(c)])
    /\ emitted' = <<>>
    /\ UNCHANGED <<session, socketKey, queue, match, nextMatch, connState,
                   declared, lastAttached, rl, web>>

\* (mutant) a handleLeave without the stale-socket check
IsStaleSocket_Never(sessionData, socketId) == FALSE

\* if (sessionData.socketId && sessionData.socketId !== socket.id) return
IsStaleSocket(sessionData, socketId) ==
    sessionData.socketId # NoSock /\ sessionData.socketId # socketId

\* const sessionData = await redisClient.hGetAll(getSessionKey(sessionId))
LvRead(t) ==
    /\ At(t, "lv_read")
    /\ LET tk == tasks[t]
           sessionData == session[tk.sid]
           seen == [tk EXCEPT !.staleRead =
                      (sessionData.socketId # NoSock
                         /\ sessionData.socketId # tk.conn)]
           nxt == IF IsStaleSocket(sessionData, tk.conn)
                  THEN LeaveDone(seen)
                  ELSE LET sd == [seen EXCEPT
                                    !.sdMatch = sessionData.matchId,
                                    !.sdMode = sessionData.mode,
                                    !.sdType = sessionData.connectionType,
                                    !.sdInQ = sessionData.inQueue,
                                    !.roomId = sessionData.matchId]
                       IN IF sessionData.matchId # NoRoom
                          THEN [sd EXCEPT !.pc = "dm_get"]
                          ELSE LeaveTail(sd)
       IN /\ SetTask(t, Settle(nxt))
          /\ emitted' = AckLeave(nxt)
    /\ UNCHANGED <<session, socketKey, queue, match, nextMatch, connState,
                   cmds, declared, lastAttached, rl, web>>

\* removeFromQueue (251-255): await redisClient.lRem(queueKey, 0, sessionId)
RqLrem(t) ==
    /\ At(t, "rq_lrem")
    /\ LET tk == tasks[t]
       IN queue' = [queue EXCEPT ![getQueueKey(tk.sdMode, tk.sdType)] =
                      RemoveAll(@, tk.sid)]
    /\ SetTask(t, [tasks[t] EXCEPT !.pc = "rq_hset"])
    /\ emitted' = <<>>
    /\ UNCHANGED <<session, socketKey, match, nextMatch, connState, cmds,
                   declared, lastAttached, rl, web>>

\* await redisClient.hSet(getSessionKey(sessionId), { inQueue: "false" })
RqHset(t) ==
    /\ At(t, "rq_hset")
    /\ session' = [session EXCEPT ![tasks[t].sid].inQueue = "false"]
    /\ SetTask(t, Settle(LeaveDone(tasks[t])))
    /\ emitted' = AckLeave(LeaveDone(tasks[t]))
    /\ UNCHANGED <<socketKey, queue, match, nextMatch, connState, cmds,
                   declared, lastAttached, rl, web>>

\* ------------------------------------------------ handleDisconnect (590-600)
StartDisconnect(t, c) ==
    /\ FreeSlot(t)
    /\ cmds' = cmds + 1
    /\ connState[c] = "open"
    /\ connState' = [connState EXCEPT ![c] = "closed"]
    /\ SetTask(t, [IdleTask EXCEPT
                     !.kind = "disconnect", !.pc = "dc_get", !.conn = c,
                     !.arrivedStale = BoundElsewhere(c)])
    /\ emitted' = <<>>
    /\ UNCHANGED <<session, socketKey, queue, match, nextMatch, declared,
                   lastAttached, rl, web>>

\* const sessionId = await redisClient.get(getSocketKey(socket.id))
DcGet(t) ==
    /\ At(t, "dc_get")
    /\ IF socketKey[tasks[t].conn] = NoVal
       THEN Finish(t)
       ELSE SetTask(t, [tasks[t] EXCEPT !.sid = socketKey[tasks[t].conn],
                                        !.pc = "lv_read"])
    /\ emitted' = <<>>
    /\ UNCHANGED <<session, socketKey, queue, match, nextMatch, connState,
                   cmds, declared, lastAttached, rl, web>>

\* await redisClient.del(getSocketKey(socket.id))
DcDel(t) ==
    /\ At(t, "dc_del")
    /\ socketKey' = [socketKey EXCEPT ![tasks[t].conn] = NoVal]
    /\ Finish(t)
    /\ emitted' = <<>>
    /\ UNCHANGED <<session, queue, match, nextMatch, connState, cmds, declared,
                   lastAttached, rl, web>>

\* ---------------------------------------------------- handleSignal (602-626)
StartSignal(t, c, r, target) ==
    /\ FreeSlot(t)
    /\ connState[c] = "open"
    /\ cmds' = cmds + 1
    /\ SetTask(t, [IdleTask EXCEPT
                     !.kind = "signal", !.pc = "sg_self", !.conn = c,
                     !.sid = ConnSession[c], !.roomId = r, !.targetId = target])
    /\ emitted' = <<>>
    /\ UNCHANGED <<session, socketKey, queue, match, nextMatch, connState,
                   declared, lastAttached, rl, web>>

\* if (sessionData.matchId !== roomId) return
SgSelf(t) ==
    /\ At(t, "sg_self")
    /\ IF session[tasks[t].sid].matchId # tasks[t].roomId
       THEN Finish(t)
       ELSE SetTask(t, [tasks[t] EXCEPT !.pc = "sg_target"])
    /\ emitted' = <<>>
    /\ UNCHANGED <<session, socketKey, queue, match, nextMatch, connState,
                   cmds, declared, lastAttached, rl, web>>

\* if (!targetData.socketId) return; io.to(targetData.socketId).emit("signal")
SgTarget(t) ==
    /\ At(t, "sg_target")
    /\ LET tk == tasks[t]
           targetData == session[tk.targetId]
       IN emitted' = IF targetData.socketId = NoSock THEN <<>>
                     ELSE <<Ev("signal", targetData.socketId, NoRoom, NoVal,
                               FALSE, tk.sid)>>
    /\ Finish(t)
    /\ UNCHANGED <<session, socketKey, queue, match, nextMatch, connState,
                   cmds, declared, lastAttached, rl, web>>

\* ------------------------------------------------------------ specification
\* the intent a client sends with next: the one it declared (any, if none yet)
OwnModes(c) ==
    IF declared[ConnSession[c]] = NoVal THEN Modes
    ELSE {declared[ConnSession[c]]}

FindSteps(t) ==
    \/ FmLen(t) \/ FmIndex(t) \/ FmPeer(t) \/ FmStaleRem(t) \/ FmStaleLen(t)
    \/ FmClaim(t) \/ FmHsetMatch(t) \/ FmHsetSelf(t) \/ FmHsetCand(t)
    \/ AqHset(t) \/ AqSet(t) \/ AqPush(t)

\* reached only when another handler removed the candidate in between
RaceSteps(t) == FmFailLen(t)

JoinSteps(t) == JqPeer(t)

DestroySteps(t) == DmGet(t) \/ DmHdel(t) \/ DmDel(t) \/ PdGet(t)

NextSteps(t) == NxNewPeer(t) \/ NxSelfPeer(t)

LeaveSteps(t) == LvRead(t) \/ LvNewPeer(t) \/ RqLrem(t) \/ RqHset(t)

AttachSteps(t) == AtSet(t) \/ AtHset(t)

DisconnectSteps(t) == DcGet(t) \/ DcDel(t)

SignalSteps(t) == SgSelf(t) \/ SgTarget(t)

\* Spec: A, B and C on one connection each; handlers run one at a time
Arrive(t) ==
    /\ AllIdle
    /\ cmds < MaxCmds
    /\ \/ \E c \in {1, 3, 4}, m \in Modes, ty \in Types : StartJoin(t, c, m, ty)
       \/ \E c \in {1, 3, 4}, r \in KnownRooms :
             \E m \in OwnModes(c), ty \in Types : StartNext(t, c, r, m, ty)
       \/ \E c \in {1, 3, 4} : StartLeave(t, c)
       \/ \E c \in {1, 3, 4}, r \in KnownRooms, target \in Sessions :
             StartSignal(t, c, r, target)

Next ==
    \E t \in Tasks :
       \/ Arrive(t) \/ FindSteps(t) \/ JoinSteps(t) \/ DestroySteps(t)
       \/ NextSteps(t) \/ LeaveSteps(t) \/ SignalSteps(t)

Spec == Init /\ [][Next]_vars

\* SpecTabs: A and B are paired and A opens a second connection (2); the
\* events arrive on A's two connections and their handlers overlap
TabConns == {1, 2}
TabModes == {"casual"}

ArriveTabs(t) ==
    /\ cmds < TabCmds
    /\ \/ \E c \in TabConns : StartAttach(t, c)
       \/ \E c \in TabConns : StartDisconnect(t, c)
       \/ \E c \in TabConns, m \in TabModes, ty \in Types :
             StartJoin(t, c, m, ty)
       \/ \E c \in TabConns, r \in KnownRooms :
             \E m \in TabModes, ty \in Types : StartNext(t, c, r, m, ty)
       \/ \E c \in TabConns : StartLeave(t, c)
       \/ \E c \in TabConns, r \in KnownRooms, target \in {"A", "B"} :
             StartSignal(t, c, r, target)

NextTabs ==
    \E t \in Tasks :
       \/ ArriveTabs(t) \/ AttachSteps(t) \/ DisconnectSteps(t)
       \/ SignalSteps(t) \/ FindSteps(t) \/ RaceSteps(t) \/ JoinSteps(t)
       \/ DestroySteps(t) \/ NextSteps(t) \/ LeaveSteps(t)

SpecTabs == InitTabs /\ [][NextTabs]_vars

\* SpecRecon: the reconnect race.  As SpecTabs, without next: connections,
\* disconnects, leaves, joins and signals to B on A's two connections
ArriveRecon(t) ==
    /\ cmds < TabCmds
    /\ \/ \E c \in TabConns : StartAttach(t, c)
       \/ \E c \in TabConns : StartDisconnect(t, c)
       \/ \E c \in TabConns, m \in TabModes, ty \in Types :
             StartJoin(t, c, m, ty)
       \/ \E c \in TabConns : StartLeave(t, c)
       \/ \E c \in TabConns, r \in KnownRooms : StartSignal(t, c, r, "B")

NextRecon ==
    \E t \in Tasks :
       \/ ArriveRecon(t) \/ AttachSteps(t) \/ DisconnectSteps(t)
       \/ SignalSteps(t) \/ FindSteps(t) \/ RaceSteps(t) \/ JoinSteps(t)
       \/ DestroySteps(t) \/ LeaveSteps(t)

SpecRecon == InitTabs /\ [][NextRecon]_vars

\* SpecRace: A and B are paired and C waits; join-queue and leave arrive on the
\* three connections and their handlers overlap
RaceConns == {1, 3, 4}
RaceModes == {"casual"}

ArriveRace(t) ==
    /\ cmds < RaceCmds
    /\ \/ \E c \in RaceConns, m \in RaceModes, ty \in Types :
             StartJoin(t, c, m, ty)
       \/ \E c \in RaceConns : StartLeave(t, c)

NextRace ==
    \E t \in Tasks :
       \/ ArriveRace(t) \/ FindSteps(t) \/ RaceSteps(t) \/ JoinSteps(t)
       \/ DestroySteps(t) \/ LeaveSteps(t)

SpecRace == InitRace /\ [][NextRace]_vars

\* ------------------------------------------- a queue with an expired head
\* A, B and C were all pushed onto queue:casual:chat (their join-queue calls
\* overlapped, so none saw another), and A's session record has since
\* expired (the 24 hour TTL of 227 ran out after A went away); D has
\* just connected.
InitS6 ==
    /\ session = [s \in Sessions |->
         IF s = "A" THEN NoSession
         ELSE IF s = "D" THEN [NewSession EXCEPT !.socketId = 5]
         ELSE [socketId |-> OpenConnOf(s, {3, 4}), mode |-> "casual",
               connectionType |-> "chat", inQueue |-> "true",
               matchId |-> NoRoom, peerId |-> NoVal]]
    /\ socketKey = [c \in Conns |->
                      IF c \in {1, 2} THEN NoVal ELSE ConnSession[c]]
    /\ queue = [q \in QueueKeys |->
         IF q = <<"casual", "chat">> THEN <<"A", "B", "C">> ELSE <<>>]
    /\ match = [m \in MatchIds |-> NoMatch]
    /\ nextMatch = 1
    /\ connState = [c \in Conns |-> IF c \in {1, 2} THEN "closed" ELSE "open"]
    /\ tasks = [t \in Tasks |-> IdleTask]
    /\ emitted = <<>>
    /\ cmds = 0
    /\ declared = [s \in Sessions |-> IF s = "D" THEN NoVal ELSE "casual"]
    /\ lastAttached = [s \in Sessions |->
                         IF s = "A" THEN 1 ELSE OpenConnOf(s, {3, 4, 5})]
    /\ rl = RlInit
    /\ web = WebInit

\* B, C and D send join-queue and leave, one handler at a time
ArriveS6(t) ==
    /\ AllIdle
    /\ cmds < TabCmds
    /\ \/ \E c \in {3, 4, 5} : StartJoin(t, c, "casual", "chat")
       \/ \E c \in {3, 4, 5} : StartLeave(t, c)

NextS6 ==
    \E t \in Tasks :
       \/ ArriveS6(t)
       \/ FindSteps(t)
       \/ JoinSteps(t)
       \/ DestroySteps(t)
       \/ LeaveSteps(t)

SpecS6 == InitS6 /\ [][NextS6]_vars

\* --------------------------------------------- a long run of stale entries
\* A sends join-queue(hire, video) again and again while it waits (each call
\* finds nobody and pushes one more entry of A, 403-410), then is matched
\* with B through the casual queue, which leaves every one of its hire
\* entries stale; C then sends join-queue(freelance, video) and scans them.
ArriveScan(t) ==
    /\ AllIdle
    /\ \/ cmds <= MAX_CHECKS /\ StartJoin(t, 1, "hire", "video")
       \/ cmds = MAX_CHECKS + 1 /\ StartJoin(t, 3, "casual", "video")
       \/ cmds = MAX_CHECKS + 2 /\ StartJoin(t, 1, "casual", "video")
       \/ cmds = MAX_CHECKS + 3 /\ StartJoin(t, 4, "freelance", "video")

NextScan ==
    \E t \in Tasks :
       \/ ArriveScan(t)
       \/ FindSteps(t)
       \/ JoinSteps(t)

SpecScan == Init /\ [][NextScan]_vars

\* SpecFifo: A, B and C wait in the freelance queue; A and B join again as
\* hirers or leave, and their handlers overlap
FifoConns == {1, 3}

ArriveFifo(t) ==
    /\ cmds < TabCmds
    /\ \/ \E c \in FifoConns, ty \in Types : StartJoin(t, c, "hire", ty)
       \/ \E c \in FifoConns : StartLeave(t, c)

NextFifo ==
    \E t \in Tasks :
       \/ ArriveFifo(t) \/ FindSteps(t) \/ RaceSteps(t) \/ JoinSteps(t)
       \/ DestroySteps(t) \/ LeaveSteps(t)

SpecFifo == InitFifo /\ [][NextFifo]_vars

\* SpecDrop: A and B are paired; B's connection closes, A leaves and C joins,
\* and the three handlers overlap
ArriveDrop(t) ==
    /\ cmds < TabCmds
    /\ \/ StartDisconnect(t, 3)
       \/ StartLeave(t, 1)
       \/ \E ty \in Types : StartJoin(t, 4, "casual", ty)

NextDrop ==
    \E t \in Tasks :
       \/ ArriveDrop(t) \/ FindSteps(t) \/ JoinSteps(t) \/ DestroySteps(t)
       \/ LeaveSteps(t) \/ DisconnectSteps(t)

SpecDrop == InitTabs /\ [][NextDrop]_vars

\* ------------------------------------------ join-queue followed by leave
\* B and C are each either idle or waiting with the intent they declared
\* (two waiting with compatible intents is what overlapping join-queue calls
\* leave behind); A is connected, in no queue and in no room.
WaitingRecord(s, m) ==
    [socketId |-> OpenConnOf(s, {1, 3, 4}), mode |-> m,
     connectionType |-> "video", inQueue |-> "true", matchId |-> NoRoom,
     peerId |-> NoVal]

\* the queue lists when B and C wait as declared, B ahead of C
WaitingQueues ==
    [q \in QueueKeys |->
        (IF q = <<declared["B"], "video">> THEN <<"B">> ELSE <<>>)
        \o (IF q = <<declared["C"], "video">> THEN <<"C">> ELSE <<>>)]

InitTrip ==
    /\ declared \in {d \in [Sessions -> Modes \cup {NoVal}] :
                        d["A"] = NoVal /\ d["D"] = NoVal}
    /\ session = [s \in Sessions |->
         IF declared[s] # NoVal THEN WaitingRecord(s, declared[s])
         ELSE [NewSession EXCEPT !.socketId = OpenConnOf(s, {1, 3, 4})]]
    /\ socketKey = [c \in Conns |->
                      IF c \in {2, 5} THEN NoVal ELSE ConnSession[c]]
    /\ queue = WaitingQueues
    /\ match = [m \in MatchIds |-> NoMatch]
    /\ nextMatch = 1
    /\ connState = [c \in Conns |-> IF c \in {2, 5} THEN "new" ELSE "open"]
    /\ tasks = [t \in Tasks |-> IdleTask]
    /\ emitted = <<>>
    /\ cmds = 0
    /\ lastAttached = [s \in Sessions |-> OpenConnOf(s, {1, 3, 4})]
    /\ rl = RlInit
    /\ web = WebInit

\* A sends join-queue and, when it was answered waiting, leave
ArriveTrip(t) ==
    /\ AllIdle
    /\ \/ cmds = 0 /\ \E m \in Modes, ty \in Types : StartJoin(t, 1, m, ty)
       \/ /\ cmds = 1
          /\ session["A"].inQueue = "true" /\ session["A"].matchId = NoRoom
          /\ StartLeave(t, 1)

NextTrip ==
    \E t \in Tasks :
       \/ ArriveTrip(t)
       \/ FmLen(t) \/ FmIndex(t) \/ FmPeer(t) \/ FmClaim(t)
       \/ FmHsetMatch(t) \/ FmHsetSelf(t) \/ FmHsetCand(t)
       \/ AqHset(t) \/ AqSet(t) \/ AqPush(t)
       \/ JoinSteps(t)
       \/ LvRead(t) \/ RqLrem(t) \/ RqHset(t)

SpecTrip == InitTrip /\ [][NextTrip]_vars

\* ------------------------------------------- a long-lived connection drops
\* socket:<id> is written with EX 3600 (769, 245) and is refreshed only by
\* addToQueue: on a connection that stays open for more than an hour the key
\* expires while the connection is still in use.
SocketKeyExpires(c) ==
    /\ AllIdle
    /\ connState[c] = "open"
    /\ socketKey[c] # NoVal
    /\ socketKey' = [socketKey EXCEPT ![c] = NoVal]
    /\ emitted' = <<>>
    /\ UNCHANGED <<session, queue, match, nextMatch, connState, tasks, cmds,
                   declared, lastAttached, rl, web>>

\* the session bound to connection c is in a room and c is its current
\* connection
BoundInRoom(c) ==
    LET s == ConnSession[c]
    IN /\ session[s].socketId = c
       /\ session[s].matchId # NoRoom
       /\ Holds(MatchData(session[s].matchId).participants, s)

\* one handler at a time: B's connection closes while B is in a room; A
\* leaves; C joins
ArriveDetach(t) ==
    /\ AllIdle
    /\ cmds < TabCmds
    /\ \/ BoundInRoom(3) /\ StartDisconnect(t, 3)
       \/ StartLeave(t, 1)
       \/ \E ty \in Types : StartJoin(t, 4, "casual", ty)

NextDetach ==
    \/ SocketKeyExpires(3)
    \/ \E t \in Tasks :
          \/ ArriveDetach(t)
          \/ FmLen(t) \/ FmIndex(t) \/ FmPeer(t) \/ FmClaim(t)
          \/ FmHsetMatch(t) \/ FmHsetSelf(t) \/ FmHsetCand(t)
          \/ AqHset(t) \/ AqSet(t) \/ AqPush(t)
          \/ JoinSteps(t)
          \/ DestroySteps(t)
          \/ LeaveSteps(t)
          \/ DisconnectSteps(t)

SpecDetach == InitTabs /\ [][NextDetach]_vars

\* ------------------------------- two commands in a row on one connection
\* A sends join-queue and then leave on the same connection without waiting
\* for the first acknowledgement; each socket.on callback is an async
\* function started when its packet is read (775-803), so the second
\* handler starts while the first may still be awaiting the store.
ArriveOrder(t) ==
    \/ cmds = 0 /\ \E m \in Modes, ty \in Types : StartJoin(t, 1, m, ty)
    \/ cmds = 1 /\ StartLeave(t, 1)

NextOrder ==
    \E t \in Tasks :
       \/ ArriveOrder(t)
       \/ FmLen(t) \/ FmIndex(t) \/ FmPeer(t) \/ FmClaim(t)
       \/ FmHsetMatch(t) \/ FmHsetSelf(t) \/ FmHsetCand(t)
       \/ AqHset(t) \/ AqSet(t) \/ AqPush(t)
       \/ JoinSteps(t)
       \/ DestroySteps(t)
       \/ LeaveSteps(t)

SpecOrder == InitTrip /\ [][NextOrder]_vars

\* --------------------------------------- two sessions join at the same time
\* A and B, both connected and in no queue and no room, each send one
\* join-queue of the same medium; the two handlers overlap.
PairConns == {1, 3}

ArrivePair(t) ==
    /\ cmds < 2
    /\ \E c \in PairConns, m \in Modes, ty \in Types :
          /\ declared[ConnSession[c]] = NoVal
          /\ StartJoin(t, c, m, ty)

NextPair ==
    \E t \in Tasks :
       \/ ArrivePair(t)
       \/ FmLen(t) \/ FmIndex(t) \/ FmPeer(t) \/ FmClaim(t)
       \/ FmHsetMatch(t) \/ FmHsetSelf(t) \/ FmHsetCand(t)
       \/ AqHset(t) \/ AqSet(t) \/ AqPush(t)
       \/ JqPeer(t)

SpecPair == Init /\ [][NextPair]_vars

\* ------------------------------------------------- the handshake (745-772)
\* what a connecting client presents: no token, a token that does not
\* verify, or the token issued for the connection's session
Tokens == {"none", "invalid", "valid"}

\* verifyToken (194-211): the session id of the token, or nothing
verifyToken(tok, c) == IF tok = "valid" THEN ConnSession[c] ELSE NoVal

\* io.use (745-759): next(new Error(...)) ends the connection, next() lets
\* the connection handler run
Handshake(t, c, tok) ==
    IF tok = "none" \/ verifyToken(tok, c) = NoVal
    THEN /\ FreeSlot(t)
         /\ connState[c] = "new"
         /\ connState' = [connState EXCEPT ![c] = "rejected"]
         /\ cmds' = cmds + 1
         /\ emitted' = <<>>
         /\ UNCHANGED <<session, socketKey, queue, match, nextMatch, tasks,
                        declared, lastAttached, rl, web>>
    ELSE StartAttach(t, c)

\* B and C are connected; D has a session record and is not connected; A
\* holds a token that still verifies, but its session record is no longer
\* in the store
InitAuth ==
    /\ session = [s \in Sessions |->
         IF s = "A" THEN NoSession
         ELSE [NewSession EXCEPT !.socketId = OpenConnOf(s, {3, 4})]]
    /\ socketKey = [c \in Conns |-> IF c \in {3, 4} THEN ConnSession[c] ELSE NoVal]
    /\ queue = [q \in QueueKeys |-> <<>>]
    /\ match = [m \in MatchIds |-> NoMatch]
    /\ nextMatch = 1
    /\ connState = [c \in Conns |-> IF c \in {3, 4} THEN "open" ELSE "new"]
    /\ tasks = [t \in Tasks |-> IdleTask]
    /\ emitted = <<>>
    /\ cmds = 0
    /\ declared = [s \in Sessions |-> NoVal]
    /\ lastAttached = [s \in Sessions |-> OpenConnOf(s, {3, 4})]
    /\ rl = RlInit
    /\ web = WebInit

ArriveAuth(t) ==
    /\ AllIdle
    /\ cmds < TabCmds
    /\ \/ \E c \in {1, 5}, tok \in Tokens : Handshake(t, c, tok)
       \/ \E c \in {1, 3, 5}, ty \in Types : StartJoin(t, c, "casual", ty)
       \/ \E c \in {1, 3, 5} : StartLeave(t, c)

NextAuth ==
    \E t \in Tasks :
       \/ ArriveAuth(t)
       \/ AttachSteps(t)
       \/ FmLen(t) \/ FmIndex(t) \/ FmPeer(t) \/ FmClaim(t)
       \/ FmHsetMatch(t) \/ FmHsetSelf(t) \/ FmHsetCand(t)
       \/ AqHset(t) \/ AqSet(t) \/ AqPush(t)
       \/ JoinSteps(t)
       \/ LvRead(t) \/ RqLrem(t) \/ RqHset(t)

SpecAuth == InitAuth /\ [][NextAuth]_vars

\* ------------------------------------------------- checkRateLimit
\* Every call of a run is for one identifier under one configuration
\* { windowMs: RlWindow, maxRequests: RlMax }.

\* the number of members of a sorted set
RECURSIVE zCardUpTo(_, _)
zCardUpTo(z, x) == IF x < 0 THEN 0 ELSE z[x] + zCardUpTo(z, x - 1)

zCard(z) == zCardUpTo(z, RlMaxTime)

\* ZREMRANGEBYSCORE key lo hi: both ends are inclusive
zRemRangeByScore(z, lo, hi) ==
    [x \in RlTimes |-> IF lo <= x /\ x <= hi THEN 0 ELSE z[x]]

\* ZADD of a fresh member `${now}-${Math.random()}` with score now
zAdd(z, score) == [z EXCEPT ![score] = @ + 1]

\* Math.max(0, n)
Max0(n) == IF n > 0 THEN n ELSE 0

\* a fail-open answer that rejects instead
FailOpen_Reject ==
    [allowed |-> FALSE, remaining |-> 0, resetIn |-> RlWindow]

\* the value the catch block and the missing-client branch return
FailOpen ==
    [allowed |-> TRUE, remaining |-> RlMax, resetIn |-> RlWindow]

\* the value returned after the four store commands ran, count being the
\* ZCARD reply
Sliding(count) ==
    [allowed |-> count < RlMax,
     remaining |-> Max0(RlMax - count - 1),
     resetIn |-> RlWindow]

\* the call of impl that captured Date.now() = at returns res by return
\* statement path ("memory" 43, "window" 125 / lib 264, "catch" 129 / lib 268,
\* "noclient" 93)
Returned(r, impl, at, path, res) ==
    [r EXCEPT !.last = [impl |-> impl, path |-> path, at |-> at,
                        allowed |-> res.allowed,
                        remaining |-> res.remaining,
                        resetIn |-> res.resetIn],
              !.admitted[impl][at] =
                  IF res.allowed /\ path \in {"memory", "window"}
                  THEN @ + 1 ELSE @]

Others == <<session, socketKey, queue, match, nextMatch, connState, tasks,
            emitted, cmds, declared, lastAttached>>

\* a millisecond passes
RlTick ==
    /\ rl.now < RlMaxTime
    /\ rl' = [rl EXCEPT !.now = @ + 1]
    /\ UNCHANGED <<Others, web>>

\* the in-memory checkRateLimit: synchronous, one step
MemCheck ==
    /\ rl.calls < RlCalls
    /\ LET now == rl.now
           fresh == ~rl.entry.has \/ now > rl.entry.resetAt
           entry == IF fresh
                    THEN [has |-> TRUE, count |-> 0,
                          resetAt |-> now + RlWindow]
                    ELSE rl.entry
           counted == [entry EXCEPT !.count = @ + 1]
           res == [allowed |-> counted.count <= RlMax,
                   remaining |-> Max0(RlMax - counted.count),
                   resetIn |-> Max0(counted.resetAt - now)]
       IN rl' = Returned([rl EXCEPT !.entry = counted, !.calls = @ + 1],
                         "memory", now, "memory", res)
    /\ UNCHANGED <<Others, web>>

\* setRedisClient, called by the backend's main module
SetRedisClient ==
    /\ ~rl.client
    /\ rl' = [rl EXCEPT !.client = TRUE]
    /\ UNCHANGED <<Others, web>>

\* the backend's checkRateLimit while redisClient is null
RlNoClient ==
    /\ rl.calls < RlCalls
    /\ ~rl.client
    /\ rl' = Returned([rl EXCEPT !.calls = @ + 1],
                      "backend", rl.now, "noclient", FailOpen)
    /\ UNCHANGED <<Others, web>>

\* a store-backed checkRateLimit up to its await: it captures Date.now(),
\* queues the four commands and sends them
RlCall(impl) ==
    /\ rl.calls < RlCalls
    /\ impl = "backend" => rl.client
    /\ rl' = [rl EXCEPT !.calls = @ + 1,
                        !.pending = Append(@, [impl |-> impl, now |-> rl.now])]
    /\ UNCHANGED <<Others, web>>

\* the calls in flight without the i-th
Without(p, i) == [j \in 1 .. (Len(p) - 1) |-> IF j < i THEN p[j] ELSE p[j + 1]]

\* the store runs the four commands of the i-th call in flight, in one piece,
\* and the call resumes after its await.  The calls in flight reach the store
\* in any order.  EXPIRE drops the key ceil(windowMs / 1000) + 1 seconds after
\* the latest call, when every member is older than the window and the next
\* call's ZREMRANGEBYSCORE would remove it anyway, so it is not a step.
RlExec(i) ==
    /\ i \in 1 .. Len(rl.pending)
    /\ LET call == rl.pending[i]
           windowStart == call.now - RlWindow
           trimmed == zRemRangeByScore(rl.zset[call.impl], 0, windowStart)
           count == zCard(trimmed)
       IN rl' = Returned([rl EXCEPT !.pending = Without(@, i),
                                    !.zset[call.impl] = zAdd(trimmed, call.now),
                                    !.everAdded[call.impl] =
                                        zAdd(@, call.now)],
                         call.impl, call.now, "window", Sliding(count))
    /\ UNCHANGED <<Others, web>>

\* exec() of the i-th call in flight rejects (the store is unreachable) and
\* the catch block runs
RlThrow(i) ==
    /\ i \in 1 .. Len(rl.pending)
    /\ LET call == rl.pending[i]
       IN rl' = Returned([rl EXCEPT !.pending = Without(@, i)],
                         call.impl, call.now, "catch", FailOpen)
    /\ UNCHANGED <<Others, web>>

NextLimit ==
    \/ RlTick
    \/ MemCheck
    \/ SetRedisClient
    \/ RlNoClient
    \/ \E impl \in Stored : RlCall(impl)
    \/ \E i \in 1 .. RlCalls : RlExec(i)
    \/ \E i \in 1 .. RlCalls : RlThrow(i)

SpecLimit == Init /\ [][NextLimit]_vars

\* ----------------------------------- POST /api/reports (route.ts 437-496)
\* The reports of a run are against session A, which has a session record,
\* and come from A itself and from B; a stored report is written as its id.
\* An action is one awaited store command of one request and the synchronous
\* code up to the next.
Reporters == {"A", "B"}
Targets == {"A"}

RpReq(r) == web.reqs[r]

\* (mutant) the threshold itself does not trigger yet
shouldAutoDisconnect_Above(currentCount) ==
    currentCount > AUTO_DISCONNECT_THRESHOLD

\* const shouldAutoDisconnect = currentCount >= AUTO_DISCONNECT_THRESHOLD
shouldAutoDisconnect(currentCount) ==
    currentCount >= AUTO_DISCONNECT_THRESHOLD

\* the request in slot r is answered with an error status
Reject(w, r, status, error) ==
    [w EXCEPT !.reqs[r] = IdleReq,
              !.resp = [status |-> status, error |-> error, auto |-> FALSE,
                        nth |-> 0]]

\* the request in slot r is answered success: true; currentCount is what its
\* INCR returned, nth its place among the reports accepted against its
\* target since the counter last did not exist
Accept(w, r, currentCount, nth) ==
    [w EXCEPT !.reqs[r] = IdleReq,
              !.resp = [status |-> 200, error |-> NoVal,
                        auto |-> shouldAutoDisconnect(currentCount),
                        nth |-> nth]]

\* a report arrives: the reporter of the token (or of the body), the
\* reported session, and whether reportedSessionId and reason are both given
PostReport(r, reporter, target, complete) ==
    /\ RpReq(r).pc = "idle"
    /\ \A q \in 1 .. (r - 1) : RpReq(q).pc # "idle"
    /\ web.sent < MaxReports
    /\ web' = [web EXCEPT !.sent = @ + 1,
                          !.reqs[r] = [IdleReq EXCEPT !.pc = "limit",
                                                      !.reporter = reporter,
                                                      !.target = target,
                                                      !.complete = complete]]
    /\ UNCHANGED <<Others, rl>>

\* (mutant) a self-report is stored like any other report
RpLimit_SelfStored(r) ==
    /\ RpReq(r).pc = "limit"
    /\ LET q == RpReq(r)
           allowed == web.checks[q.reporter] < REPORT_MAX
           counted == [web EXCEPT !.checks[q.reporter] = @ + 1]
       IN web' = IF ~allowed THEN Reject(counted, r, 429, "limited")
                 ELSE IF ~q.complete
                 THEN Reject(counted, r, 400, "missing")
                 ELSE [counted EXCEPT !.reqs[r].pc = "rpush",
                                      !.reqs[r].id = web.nextReport,
                                      !.nextReport = @ + 1]
    /\ UNCHANGED <<Others, rl>>

\* await checkRateLimit(`report:${reporterSessionId}`, RATE_LIMITS.report),
\* the run lying within one window of an hour, and the three tests after it
RpLimit(r) ==
    /\ RpReq(r).pc = "limit"
    /\ LET q == RpReq(r)
           allowed == web.checks[q.reporter] < REPORT_MAX
           counted == [web EXCEPT !.checks[q.reporter] = @ + 1]
       IN web' = IF ~allowed THEN Reject(counted, r, 429, "limited")
                 ELSE IF ~q.complete
                 THEN Reject(counted, r, 400, "missing")
                 ELSE IF q.reporter = q.target
                 THEN Reject(counted, r, 400, "self")
                 ELSE [counted EXCEPT !.reqs[r].pc = "rpush",
                                      !.reqs[r].id = web.nextReport,
                                      !.nextReport = @ + 1]
    /\ UNCHANGED <<Others, rl>>

\* await redis.rpush(keys.reports(), JSON.stringify(report))
RpPush(r) ==
    /\ RpReq(r).pc = "rpush"
    /\ web' = [web EXCEPT !.reports = Append(@, RpReq(r).id),
                          !.reqs[r].pc = "set"]
    /\ UNCHANGED <<Others, rl>>

\* await redis.set(keys.reportById(report.id), ...)
RpSet(r) ==
    /\ RpReq(r).pc = "set"
    /\ web' = [web EXCEPT !.byId = @ \cup {RpReq(r).id},
                          !.reqs[r].pc = "rc_get"]
    /\ UNCHANGED <<Others, rl>>

\* incrementReportCount: const session = await getSession(sessionId)
RpCountGet(r) ==
    /\ RpReq(r).pc = "rc_get"
    /\ web' = [web EXCEPT !.reqs[r].read = web.reportCount[RpReq(r).target],
                          !.reqs[r].pc = "rc_set"]
    /\ UNCHANGED <<Others, rl>>

\* incrementReportCount: session.reportCount += 1; await redis.set(...)
RpCountSet(r) ==
    /\ RpReq(r).pc = "rc_set"
    /\ web' = [web EXCEPT !.reportCount[RpReq(r).target] = RpReq(r).read + 1,
                          !.reqs[r].pc = "incr"]
    /\ UNCHANGED <<Others, rl>>

\* const currentCount = await redis.incr(keys.reportedSession(...)); the
\* response follows unless this was the first report
RpIncr(r) ==
    /\ RpReq(r).pc = "incr"
    /\ LET t == RpReq(r).target
           bumped == [web EXCEPT !.reported[t] = @ + 1,
                                 !.accepted[t] = @ + 1]
       IN web' = IF bumped.reported[t] = 1
                 THEN [bumped EXCEPT !.reqs[r].pc = "expire"]
                 ELSE Accept(bumped, r, bumped.reported[t],
                             bumped.accepted[t])
    /\ UNCHANGED <<Others, rl>>

\* await redis.expire(keys.reportedSession(...), 24 * 60 * 60) and the
\* response.  currentCount is 1 here, whatever the counter holds by now.
RpExpire(r) ==
    /\ RpReq(r).pc = "expire"
    /\ LET t == RpReq(r).target
       IN web' = Accept([web EXCEPT !.ttl[t] = TRUE], r, 1, 1)
    /\ UNCHANGED <<Others, rl>>

\* the 24 hours of reported:<s> run out
CounterExpires(s) ==
    /\ web.ttl[s]
    /\ \A r \in ReqSlots : RpReq(r).pc = "idle"
    /\ web' = [web EXCEPT !.reported[s] = 0, !.ttl[s] = FALSE,
                          !.accepted[s] = 0]
    /\ UNCHANGED <<Others, rl>>

\* the keys after B's report against A was accepted, a while ago
ReportedOnce ==
    [WebInit EXCEPT !.reports = <<1>>, !.byId = {1}, !.nextReport = 2,
                    !.reportCount["A"] = 1, !.reported["A"] = 1,
                    !.ttl["A"] = TRUE, !.accepted["A"] = 1,
                    !.checks["B"] = 1,
                    !.resp = [status |-> 200, error |-> NoVal,
                              auto |-> FALSE, nth |-> 1]]

\* A has not been reported, or once; reporter A has sent no report in the
\* last hour, or REPORT_MAX of them in which reportedSessionId or reason was
\* missing
InitReports ==
    \E w \in {WebInit, ReportedOnce}, n \in {0, REPORT_MAX} :
       InitAt([w EXCEPT !.checks["A"] = n])

NextReports ==
    \/ \E r \in ReqSlots :
          \/ \E reporter \in Reporters, target \in Targets, c \in BOOLEAN :
                PostReport(r, reporter, target, c)
          \/ RpLimit(r) \/ RpPush(r) \/ RpSet(r) \/ RpCountGet(r)
          \/ RpCountSet(r) \/ RpIncr(r) \/ RpExpire(r)
    \/ \E s \in Targets : CounterExpires(s)

SpecReports == InitReports /\ [][NextReports]_vars

\* --------------------------- POST /api/signaling (route.ts 27-397)
\* In SpecPoll the requests are served one at a time: an action is a whole
\* request.

getMatchingMode(mode) ==
    IF mode = "hire" THEN "freelance"
    ELSE IF mode = "freelance" THEN "hire"
    ELSE mode

\* room.participants.find((p) => p !== sessionId)
OtherOf(parts, s) ==
    IF \E k \in 1 .. Len(parts) : parts[k] # s
    THEN parts[CHOOSE k \in 1 .. Len(parts) :
                  parts[k] # s /\ \A j \in 1 .. (k - 1) : parts[j] = s]
    ELSE NoVal

RoomOf(w, r) == IF r \in RoomIds THEN w.room[r] ELSE NoPollRoom

\* cleanupSession (360-391)
cleanupSession(w, s) ==
    LET roomId == w.sessionRoom[s]
        other == OtherOf(RoomOf(w, roomId).participants, s)
        emptied == roomId # NoRoom /\ other # NoVal
                   /\ w.sessionRoom[other] # roomId
    IN [w EXCEPT !.pq = [q \in PollKeys |-> RemoveAll(w.pq[q], s)],
                 !.sessionRoom[s] = NoRoom,
                 !.room = [m \in RoomIds |->
                             IF m = roomId /\ emptied THEN NoPollRoom
                             ELSE w.room[m]],
                 !.note[s] = NoNote]

\* the room created by sessionId for the popped peerId (88-117, 279-304)
CreateRoom(w, s, peerId, mode, type) ==
    [w EXCEPT !.room[w.nextRoom] =
                  [participants |-> <<peerId, s>>, mode |-> mode,
                   type |-> type, initiatorId |-> s,
                   intents |-> <<w.intent[peerId], w.intent[s]>>],
              !.nextRoom = @ + 1,
              !.sessionRoom[s] = w.nextRoom,
              !.sessionRoom[peerId] = w.nextRoom,
              !.note[peerId] = [kind |-> "matched", roomId |-> w.nextRoom,
                                peerId |-> s]]

\* the while loop of join-queue (62-127) and the rpush after it (130)
RECURSIVE JoinLoop(_, _, _, _, _)
JoinLoop(w, s, mode, type, attempts) ==
    LET queueKey == <<getMatchingMode(mode), type>>
        ownQueueKey == <<mode, type>>
        waiting == [w EXCEPT !.pq[ownQueueKey] = Append(@, s)]
    IN IF attempts >= MAX_ATTEMPTS THEN waiting
       ELSE IF w.pq[queueKey] = <<>> THEN waiting
       ELSE LET peerId == Head(w.pq[queueKey])
                popped == [w EXCEPT !.pq[queueKey] = Tail(@)]
            IN IF peerId = s THEN JoinLoop(popped, s, mode, type, attempts)
               ELSE IF ~w.heartbeat[peerId]
               THEN JoinLoop(popped, s, mode, type, attempts + 1)
               ELSE CreateRoom(popped, s, peerId, mode, type)

\* the start of every request: the heartbeat (48)
Beat(w, s) == [w EXCEPT !.heartbeat[s] = TRUE, !.polled = @ + 1]

\* action join-queue (50-132)
PollJoin(s, mode, type) ==
    /\ web.polled < MaxPolls
    /\ web.nextRoom \in RoomIds
    /\ web' = JoinLoop(cleanupSession([Beat(web, s) EXCEPT !.intent[s] = mode],
                                      s),
                       s, mode, type, 0)
    /\ UNCHANGED <<Others, rl>>

\* action check-match (134-165): only the match:<session> key changes
PollCheckMatch(s) ==
    /\ web.polled < MaxPolls
    /\ web.note[s] # NoNote
    /\ web' = [Beat(web, s) EXCEPT !.note[s] = NoNote]
    /\ UNCHANGED <<Others, rl>>

\* the counterparty of sessionId in room roomId is sent back to a queue
\* (236-254, 322-341): the key is built from room.mode and type
Abandon(w, s, roomId, type) ==
    LET room == RoomOf(w, roomId)
        peerId == OtherOf(room.participants, s)
    IN IF peerId = NoVal THEN w
       ELSE [w EXCEPT !.sessionRoom[peerId] = NoRoom,
                      !.pq[<<room.mode, type>>] = Append(@, peerId),
                      !.note[peerId] = [NoNote EXCEPT !.kind = "left"],
                      !.requeued = [peer |-> peerId, mode |-> room.mode,
                                    type |-> type, room |-> roomId,
                                    roomType |-> room.type]]

\* the single attempt of skip (262-311)
SkipMatch(w, s, mode, type) ==
    LET queueKey == <<getMatchingMode(mode), type>>
        ownQueueKey == <<mode, type>>
        waiting == [w EXCEPT !.pq[ownQueueKey] = Append(@, s)]
    IN IF w.pq[queueKey] = <<>> THEN waiting
       ELSE LET peerId == Head(w.pq[queueKey])
                popped == [w EXCEPT !.pq[queueKey] = Tail(@)]
            IN IF peerId = s \/ ~w.heartbeat[peerId]
               THEN [popped EXCEPT !.pq[ownQueueKey] = Append(@, s)]
               ELSE CreateRoom(popped, s, peerId, mode, type)

\* action skip (231-312); the client sends the room it is in, and the mode
\* and type it joined with
PollSkip(s) ==
    /\ web.polled < MaxPolls
    /\ web.nextRoom \in RoomIds
    /\ web.sessionRoom[s] # NoRoom
    /\ LET roomId == web.sessionRoom[s]
           mode == web.intent[s]
           type == web.room[roomId].type
       IN web' = SkipMatch(cleanupSession(Abandon(Beat(web, s), s, roomId,
                                                  type), s),
                           s, mode, type)
    /\ UNCHANGED <<Others, rl>>

\* action leave (314-346); the client sends the room it is in
PollLeave(s) ==
    /\ web.polled < MaxPolls
    /\ web.sessionRoom[s] # NoRoom
    /\ LET roomId == web.sessionRoom[s]
       IN web' = cleanupSession(Abandon(Beat(web, s), s, roomId,
                                        web.room[roomId].type), s)
    /\ UNCHANGED <<Others, rl>>

\* the 30 seconds of heartbeat:<s> run out
HeartbeatExpires(s) ==
    /\ web.heartbeat[s]
    /\ web' = [web EXCEPT !.heartbeat[s] = FALSE]
    /\ UNCHANGED <<Others, rl>>

PollSessions == {"A", "B", "C"}

NextPoll ==
    \E s \in PollSessions :
       \/ \E mode \in Modes, type \in Types : PollJoin(s, mode, type)
       \/ PollCheckMatch(s)
       \/ PollSkip(s)
       \/ PollLeave(s)
       \/ HeartbeatExpires(s)

SpecPoll == Init /\ [][NextPoll]_vars

\* -------------- actions get-signals and signal (route.ts 167-229)
\* In SpecSignals requests overlap: an action is one awaited store command of
\* one request and the synchronous code up to the next.
Poll(r) == web.polls[r]

\* the request in slot r is answered
Answer(w, r, status, signals, peerLeft) ==
    [w EXCEPT !.polls[r] = IdlePoll,
              !.answer = [status |-> status, to |-> w.polls[r].sid,
                          signals |-> signals, peerLeft |-> peerLeft],
              !.delivered = [i \in 1 .. MaxSignals |->
                               IF Holds(signals, i) THEN @[i] + 1 ELSE @[i]]]

\* a get-signals or signal request of s for the room it is in arrives, and
\* its heartbeat is written (48)
PollArrive(r, s, action, targetId) ==
    /\ Poll(r).pc = "idle"
    /\ \A q \in 1 .. (r - 1) : Poll(q).pc # "idle"
    /\ web.polled < MaxPolls
    /\ web.sessionRoom[s] # NoRoom
    /\ web' = [Beat(web, s) EXCEPT !.polls[r] =
                  [IdlePoll EXCEPT !.pc = "room", !.action = action,
                                   !.sid = s, !.targetId = targetId,
                                   !.roomId = web.sessionRoom[s]]]
    /\ UNCHANGED <<Others, rl>>

\* const userRoomId = await redis.get(keys.sessionRoom(sessionId)) (171, 210)
PsRoom(r) ==
    /\ Poll(r).pc = "room"
    /\ web' = IF web.sessionRoom[Poll(r).sid] # Poll(r).roomId
              THEN Answer(web, r, 403, <<>>, FALSE)
              ELSE [web EXCEPT !.polls[r].pc =
                       IF Poll(r).action = "signal" THEN "rpush" ELSE "lrange"]
    /\ UNCHANGED <<Others, rl>>

\* await redis.rpush(signalKey, ...) (217-224)
PsPush(r) ==
    /\ Poll(r).pc = "rpush"
    /\ web.nextSignal <= MaxSignals
    /\ web' = [web EXCEPT !.signals[<<Poll(r).roomId, Poll(r).targetId>>] =
                              Append(@, web.nextSignal),
                          !.nextSignal = @ + 1,
                          !.polls[r].pc = "expire"]
    /\ UNCHANGED <<Others, rl>>

\* await redis.expire(signalKey, 60) and the response (226-228)
PsExpire(r) ==
    /\ Poll(r).pc = "expire"
    /\ web' = Answer(web, r, 200, <<>>, FALSE)
    /\ UNCHANGED <<Others, rl>>

\* const signals = await redis.lrange(signalKey, 0, -1) (177-178)
GsRange(r) ==
    /\ Poll(r).pc = "lrange"
    /\ LET signals == web.signals[<<Poll(r).roomId, Poll(r).sid>>]
       IN web' = [web EXCEPT !.polls[r].signals = signals,
                             !.polls[r].pc = IF Len(signals) > 0 THEN "del"
                                             ELSE "peer"]
    /\ UNCHANGED <<Others, rl>>

\* await redis.del(signalKey) (181-183)
GsDel(r) ==
    /\ Poll(r).pc = "del"
    /\ web' = [web EXCEPT !.signals[<<Poll(r).roomId, Poll(r).sid>>] = <<>>,
                          !.polls[r].pc = "peer"]
    /\ UNCHANGED <<Others, rl>>

\* the reads of the room and of the counterparty's room, and the response
\* (185-203)
GsPeer(r) ==
    /\ Poll(r).pc = "peer"
    /\ LET room == RoomOf(web, Poll(r).roomId)
           peerId == OtherOf(room.participants, Poll(r).sid)
           peerLeft == IF room = NoPollRoom THEN TRUE
                       ELSE peerId # NoVal
                            /\ web.sessionRoom[peerId] # Poll(r).roomId
       IN web' = Answer(web, r, 200, Poll(r).signals, peerLeft)
    /\ UNCHANGED <<Others, rl>>

\* the keys after A and then B sent join-queue(casual, video) and A's
\* check-match was answered
InRoomOne ==
    [WebInit EXCEPT
        !.room[1] = [participants |-> <<"A", "B">>, mode |-> "casual",
                     type |-> "video", initiatorId |-> "B",
                     intents |-> <<"casual", "casual">>],
        !.nextRoom = 2,
        !.sessionRoom = [s \in Sessions |->
                           IF s \in {"A", "B"} THEN 1 ELSE NoRoom],
        !.heartbeat = [s \in Sessions |-> s \in {"A", "B"}],
        !.intent = [s \in Sessions |->
                      IF s \in {"A", "B"} THEN "casual" ELSE NoVal]]

InitSignals == InitAt(InRoomOne)

NextSignals ==
    \E r \in ReqSlots :
       \/ \E s \in {"A", "B"} :
             \/ PollArrive(r, s, "get-signals", NoVal)
             \/ PollArrive(r, s, "signal", OtherOf(<<"A", "B">>, s))
       \/ PsRoom(r) \/ PsPush(r) \/ PsExpire(r)
       \/ GsRange(r) \/ GsDel(r) \/ GsPeer(r)

SpecSignals == InitSignals /\ [][NextSignals]_vars

\* ------------------------------------------------------------------ claims
\* the match record r is stored / lists s among its participants
Exists(r) == match[r] # NoMatch
InRoom(s, r) == \E k \in 1 .. Len(match[r].participants) :
                   match[r].participants[k] = s
\* the number of queue entries of each session, over all the queue lists
AllQueued == [s \in Sessions |->
                Cardinality(UNION {{<<q, k>> : k \in {j \in 1 .. Len(queue[q]) :
                                                       queue[q][j] = s}} :
                                   q \in QueueKeys})]

\* C1 (room reciprocity): whenever no handler is mid-execution, both
\* participants of every stored match record R have matchId = R, and every
\* session whose matchId is R is listed in the existing match record R.
C1_RoomReciprocity ==
    AllIdle =>
       /\ \A r \in MatchIds : \A s \in Sessions :
             (Exists(r) /\ InRoom(s, r)) => session[s].matchId = r
       /\ \A s \in Sessions :
             session[s].matchId # NoRoom =>
                /\ session[s].matchId \in MatchIds
                /\ Exists(session[s].matchId)
                /\ InRoom(s, session[s].matchId)

\* C2 (queue exclusivity): every session identifier occurs at most once in
\* total across all the queue lists.
C2_QueueExclusivity == \A s \in Sessions : AllQueued[s] <= 1

\* C3 (one room per session): no session is a participant of two existing
\* match records; findMatch writes a match record only for a caller and a
\* candidate whose matchId is empty.
C3_MintOnlyRoomless ==
    /\ \A s \in Sessions : \A r1, r2 \in MatchIds :
          (Exists(r1) /\ Exists(r2) /\ InRoom(s, r1) /\ InRoom(s, r2)) => r1 = r2
    /\ \A t \in Tasks :
          At(t, "fm_hset_match") =>
             /\ session[ArgSid(tasks[t])].matchId = NoRoom
             /\ session[tasks[t].cand].matchId = NoRoom

Complementary(a, b) ==
    \/ a = "hire" /\ b = "freelance"
    \/ a = "freelance" /\ b = "hire"
    \/ a = b /\ a \in Modes \ {"hire", "freelance"}

\* C4 (pairing rule): for every room minted by findMatch, on any path, the
\* intents its two participants last declared themselves are complementary:
\* hire with freelance, or the same intent other than hire/freelance.
C4_PairingRule ==
    \A r \in MatchIds :
       Exists(r) => Complementary(match[r].declaredAtMint[1],
                                  match[r].declaredAtMint[2])

\* C5 (relay confinement): every signal event emitted to the connection of a
\* client T with fromId = S is emitted while S and T are the two participants
\* of one existing room and that room is T's current room.
C5_RelayConfinement ==
    \A k \in 1 .. Len(emitted) :
       emitted[k].type = "signal" =>
          LET S == emitted[k].fromId
              T == ConnSession[emitted[k].to]
              R == session[T].matchId
          IN /\ R \in MatchIds
             /\ Exists(R)
             /\ S # T
             /\ InRoom(S, R)
             /\ InRoom(T, R)

\* C6 (teardown authorization): a step of a next handler that names an
\* existing room its caller is not a participant of leaves the match record
\* and the session records of both participants unchanged.
C6_TeardownAuthorized ==
    [][\A t \in Tasks :
          LET tk == tasks[t]
          IN (/\ tk.kind = "next"
              /\ tk.pc \in {"dm_get", "dm_hdel", "dm_del", "pd_get"}
              /\ tasks'[t] # tk
              /\ tk.roomId \in MatchIds
              /\ Exists(tk.roomId)
              /\ ~InRoom(tk.sid, tk.roomId))
             => /\ match'[tk.roomId] = match[tk.roomId]
                /\ \A s \in Sessions :
                      InRoom(s, tk.roomId) => session'[s] = session[s]]_vars

MintPhase == {"fm_hset_match", "fm_hset_self", "fm_hset_cand"}

\* C7 (no double match): under every interleaving of concurrent findMatch
\* executions a matcher goes on to mint a room with a candidate only by
\* removing one queue entry of that candidate, and a matcher that finds the
\* entry gone mints nothing; so an entry is claimed by at most one matcher.
C7_SingleWinner ==
    [][\A t \in Tasks :
          At(t, "fm_claim") /\ tasks'[t] # tasks[t] =>
             LET tk == tasks[t]
                 before == Occurs(queue[TargetKey(tk)], tk.cand)
                 after == Occurs(queue'[TargetKey(tk)], tk.cand)
             IN IF tasks'[t].pc \in MintPhase
                THEN before >= 1 /\ after = before - 1
                ELSE before = 0 /\ after = 0 /\ nextMatch' = nextMatch]_vars

\* two matchers went for the same entry: one mints, the other found it gone
C7_Witness ==
    \E t, u \in Tasks :
       /\ t # u
       /\ tasks[t].pc \in MintPhase
       /\ tasks[u].pc = "fm_fail_len"
       /\ tasks[u].cand = tasks[t].cand
       /\ TargetKey(tasks[u]) = TargetKey(tasks[t])
       /\ AllQueued[tasks[t].cand] = 0

\* a step of a leave or disconnect handler of a connection that finds (or
\* found, when it read the session record) the session bound to another one
StaleStep(t) ==
    /\ tasks[t].kind \in {"leave", "disconnect"}
    /\ tasks'[t] # tasks[t]
    /\ IF tasks[t].pc \in {"dc_get", "lv_read"}
       THEN BoundElsewhere(tasks[t].conn)
       ELSE tasks[t].staleRead

\* C8 (stale-socket idempotence): a leave or disconnect from a superseded
\* connection leaves the session's matchId, peerId, inQueue and socketId, the
\* match records, the queues and the counterparty's session unchanged and
\* emits nothing to another client; a signal sent in the session's room is
\* then still forwarded to the counterparty.
C8_StaleSocketIdempotence ==
    [][\A t \in Tasks :
          LET tk == tasks[t]
              s == ConnSession[tk.conn]
          IN /\ StaleStep(t) =>
                   /\ session'[s].matchId = session[s].matchId
                   /\ session'[s].peerId = session[s].peerId
                   /\ session'[s].inQueue = session[s].inQueue
                   /\ session'[s].socketId = session[s].socketId
                   /\ match' = match
                   /\ queue' = queue
                   /\ \A p \in Sessions \ {s} : session'[p] = session[p]
                   /\ \A k \in 1 .. Len(emitted') :
                         ConnSession[emitted'[k].to] = s
             /\ (/\ tk.kind = "signal"
                 /\ tasks'[t] # tk
                 /\ session[tk.sid].matchId # NoRoom
                 /\ tk.roomId = session[tk.sid].matchId
                 /\ tk.targetId = session[tk.sid].peerId
                 /\ tk.targetId # NoVal
                 /\ session[tk.targetId].socketId # NoSock)
                => IF tk.pc = "sg_self"
                   THEN tasks'[t].pc = "sg_target"
                   ELSE emitted' = <<Ev("signal", session[tk.targetId].socketId,
                                        NoRoom, NoVal, FALSE, tk.sid)>>]_vars

\* A's first connection was closed after its second one had been attached,
\* the room is still there and a signal of A has just been forwarded to B
C8_Witness ==
    /\ connState[1] = "closed"
    /\ socketKey[1] = NoVal
    /\ session["A"].socketId = 2
    /\ session["A"].matchId = 1
    /\ session["B"].matchId = 1
    /\ Exists(1)
    /\ emitted = <<Ev("signal", 3, NoRoom, NoVal, FALSE, "A")>>

\* C9 (old connections cannot tear down the room): no step of a handler of an
\* event (leave, disconnect, next, join-queue) that arrived on a superseded
\* connection destroys the session's current room or changes the room mapping
\* of either participant.
C9_OldConnectionHarmless ==
    [][\A t \in Tasks :
          LET tk == tasks[t]
              s == ConnSession[tk.conn]
              R == session[s].matchId
          IN (/\ tk.kind \in {"leave", "disconnect", "next", "join"}
              /\ tk.arrivedStale
              /\ tasks'[t] # tk
              /\ R \in MatchIds
              /\ Exists(R))
             => /\ match'[R] = match[R]
                /\ \A p \in Sessions :
                      InRoom(p, R) => session'[p].matchId = session[p].matchId]_vars

\* C10 (connection binding): whenever no handler is mid-execution, the
\* socketId of a session that has an open connection is the connection the
\* session attached last.
C10_BindingIsLatest ==
    AllIdle =>
       \A s \in Sessions :
          (\E c \in Conns : ConnSession[c] = s /\ connState[c] = "open")
             => session[s].socketId = lastAttached[s]

\* the position of the first entry of v in the list s
FirstPos(s, v) ==
    CHOOSE k \in 1 .. Len(s) : s[k] = v /\ \A j \in 1 .. (k - 1) : s[j] # v

\* C11 (FIFO): when a findMatch removes a candidate from a queue to match
\* it, no valid candidate (socketId set, inQueue = true, not the caller) is
\* waiting ahead of it in that queue.
C11_Fifo ==
    [][\A t \in Tasks :
          At(t, "fm_claim") /\ tasks'[t].pc = "fm_hset_match" =>
             LET tk == tasks[t]
                 q == queue[TargetKey(tk)]
             IN \A j \in 1 .. (FirstPos(q, tk.cand) - 1) :
                   q[j] = ArgSid(tk) \/ StaleEntry(session[q[j]])]_vars

\* every connection of session s has gone and its disconnect handlers are over
Gone(s) ==
    /\ \E c \in Conns : ConnSession[c] = s /\ connState[c] = "closed"
    /\ \A c \in Conns : ConnSession[c] = s => connState[c] \in {"new", "closed"}
    /\ \A t \in Tasks :
          tasks[t].kind = "disconnect" => ConnSession[tasks[t].conn] # s

\* C12 (stale entries are dropped): findMatch never admits a candidate none
\* of whose connections is still attached: when it reads such a candidate's
\* session it goes on to remove the entry, and it never mints a room with it.
C12_StaleDropped ==
    [][\A t \in Tasks :
          (tasks[t].pc \in {"fm_peer", "fm_claim"} /\ tasks'[t] # tasks[t]
             /\ Gone(tasks[t].cand))
          => IF tasks[t].pc = "fm_peer"
             THEN tasks'[t].pc = "fm_stale_rem"
             ELSE tasks'[t].pc \notin MintPhase]_vars

\* the intents that pair with themselves
SelfPairing == {m \in Modes : modeMatchPairs(m) = m}

\* exactly the sessions in S have declared an intent, and it is m for each
DeclaredOnly(S, m) == declared = [s \in Sessions |-> IF s \in S THEN m ELSE NoVal]

OnlyQueue(q, entries) ==
    \A k \in QueueKeys : queue[k] = IF k = q THEN entries ELSE <<>>

\* C13 (symmetric pairing): from the empty store, the first session to ask
\* with a self-pairing intent is answered waiting and is alone in its queue;
\* when a second session then asks with the same intent it is answered
\* matched (peer = the first, isInitiator = true), the first is sent matched
\* (same room, peer = the second, isInitiator = false), both have matchId = R,
\* R.initiatorId is the second session and the queue is empty.
C13_SymmetricPairing ==
    \A m \in SelfPairing, ty \in Types :
       /\ \A a \in Sessions :
             (cmds = 1 /\ AllIdle /\ DeclaredOnly({a}, m)) =>
                /\ emitted = <<Ev("ack-waiting", session[a].socketId, NoRoom,
                                  NoVal, FALSE, NoVal)>>
                /\ OnlyQueue(<<m, ty>>, <<a>>)
                /\ session[a].inQueue = "true"
                /\ \A r \in MatchIds : ~Exists(r)
       /\ \A a, b \in Sessions :
             (a # b /\ cmds = 2 /\ AllIdle /\ DeclaredOnly({a, b}, m)) =>
                \E first, second \in {a, b} :
                   /\ first # second
                   /\ emitted =
                        << Ev("matched", session[first].socketId, 1, second,
                              FALSE, NoVal),
                           Ev("ack-matched", session[second].socketId, 1, first,
                              TRUE, NoVal) >>
                   /\ match[1].participants = <<first, second>>
                   /\ match[1].initiatorId = second
                   /\ session[first].matchId = 1 /\ session[first].peerId = second
                   /\ session[second].matchId = 1 /\ session[second].peerId = first
                   /\ OnlyQueue(<<m, ty>>, <<>>)

\* A asked first and waited, B asked second and was matched with A
C13_Witness ==
    /\ cmds = 2 /\ AllIdle /\ DeclaredOnly({"A", "B"}, "casual")
    /\ match[1].initiatorId = "B"
    /\ session["A"].matchId = 1 /\ session["B"].matchId = 1
    /\ Len(emitted) = 2 /\ emitted[2].type = "ack-matched" /\ emitted[2].to = 3

\* C14 (cross-intent pairing): a join-queue with intent hire takes its
\* candidates only from the freelance queue of the same medium, and one with
\* intent freelance only from the hire queue; two sessions that both join
\* with {hire, video} from the empty store are both left waiting and no room
\* is created at any step of the two calls; {hire, video} and
\* {freelance, video} match the two.
C14_CrossIntent ==
    /\ \A t \in Tasks :
          LET tk == tasks[t]
          IN (tk.kind = "join" /\ tk.pc = "fm_peer") =>
                /\ tk.mode = "hire" => Holds(queue[<<"freelance", tk.ctype>>], tk.cand)
                /\ tk.mode = "freelance" => Holds(queue[<<"hire", tk.ctype>>], tk.cand)
    /\ (cmds <= 2 /\ \A s \in Sessions : declared[s] \in {"hire", NoVal}) =>
          \A r \in MatchIds : ~Exists(r)
    /\ \A a, b \in Sessions :
          (a # b /\ cmds = 2 /\ AllIdle /\ DeclaredOnly({a, b}, "hire")) =>
             /\ session[a].matchId = NoRoom /\ session[b].matchId = NoRoom
             /\ session[a].inQueue = "true" /\ session[b].inQueue = "true"
             /\ \E ty \in Types : \/ OnlyQueue(<<"hire", ty>>, <<a, b>>)
                                   \/ OnlyQueue(<<"hire", ty>>, <<b, a>>)
    /\ \A a, b \in Sessions :
          (/\ a # b /\ cmds = 2 /\ AllIdle
           /\ declared = [s \in Sessions |-> IF s = a THEN "hire"
                                             ELSE IF s = b THEN "freelance"
                                             ELSE NoVal]) =>
             /\ Exists(1)
             /\ InRoom(a, 1) /\ InRoom(b, 1)
             /\ session[a].matchId = 1 /\ session[b].matchId = 1
             /\ \A k \in QueueKeys : queue[k] = <<>>

\* A and B both joined with {hire, video} and both wait; then C joins with
\* freelance and its scan has read a candidate
C14_Witness ==
    /\ declared = [s \in Sessions |-> IF s \in {"A", "B"} THEN "hire"
                                      ELSE IF s = "C" THEN "freelance"
                                      ELSE NoVal]
    /\ queue[<<"hire", "video">>] = <<"A", "B">>
    /\ \E t \in Tasks : /\ tasks[t].kind = "join" /\ tasks[t].sid = "C"
                        /\ tasks[t].pc = "fm_peer" /\ tasks[t].cand = "A"

\* the sessions that have issued a join-queue or a next so far
Declarers == {s \in Sessions : declared[s] # NoVal}

\* C15 (skip cascade without a third party): A and B were matched in room 1
\* by the first two commands and no other session has asked for a match; A
\* then issues next on room 1.  B is sent peer-skipped, and when handleNext
\* completes room 1 is gone, no room exists, and A and B each have no current
\* room and wait in the queue of their own intent.
C15_SkipCascade ==
    [][\A t \in Tasks :
          LET tk == tasks[t]
          IN (/\ tk.kind = "next" /\ tk.roomId = 1 /\ cmds = 3
              /\ tk.sid \in Declarers /\ Cardinality(Declarers) = 2) =>
                /\ (tk.pc = "pd_get" /\ tasks'[t] # tk) =>
                      /\ Declarers = {tk.sid, tk.peer}
                      /\ \E k \in 1 .. Len(emitted') :
                            /\ emitted'[k].type = "peer-skipped"
                            /\ emitted'[k].to = session[tk.peer].socketId
                /\ tasks'[t] = IdleTask =>
                      /\ \A r \in MatchIds : match'[r] = NoMatch
                      /\ \A s \in Declarers :
                            /\ session'[s].matchId = NoRoom
                            /\ session'[s].inQueue = "true"
                            /\ \E ty \in Types :
                                  Holds(queue'[<<declared[s], ty>>], s)]_vars

\* C16 (destroy ordering): no state, intermediate states of next, leave and
\* disconnect included, has a session whose matchId names a room whose match
\* record has been deleted: destroyMatch clears the participants' mappings
\* before it deletes the record.
C16_DestroyOrdering ==
    \A s \in Sessions :
       (session[s] # NoSession /\ session[s].matchId # NoRoom) =>
          Exists(session[s].matchId)

\* C17 (stale candidate skip): queue casual:chat holds [A, B, C], A's session
\* record no longer exists, B and C are valid; the fresh session D sends
\* join-queue(casual, chat).  A is removed from the queue and is in no room
\* at any step, D is matched with B, and the queue is left equal to [C].
C17_StaleCandidateSkip ==
    (cmds = 1 /\ declared["D"] = "casual") =>
       /\ \A r \in MatchIds : Exists(r) => ~InRoom("A", r)
       /\ AllIdle =>
             /\ queue[<<"casual", "chat">>] = <<"C">>
             /\ AllQueued["A"] = 0
             /\ session["A"] = NoSession
             /\ match[1].participants = <<"B", "D">>
             /\ session["B"].matchId = 1 /\ session["D"].matchId = 1
             /\ session["C"].matchId = NoRoom /\ session["C"].inQueue = "true"
             /\ emitted = << Ev("matched", 3, 1, "D", FALSE, NoVal),
                             Ev("ack-matched", 5, 1, "B", TRUE, NoVal) >>

\* D's join-queue has completed from the queue [A, B, C]
C17_Witness ==
    /\ cmds = 1 /\ declared["D"] = "casual" /\ AllIdle
    /\ queue[<<"casual", "chat">>] = <<"C">>
    /\ Exists(1) /\ InRoom("D", 1)

\* C18 (two distinct participants): every match record has exactly two
\* participants and they are different sessions; the candidate a findMatch
\* goes on with is never the session it is matching, even when that session's
\* own identifier is in the queue it scans.
C18_TwoDistinct ==
    /\ \A r \in MatchIds :
          Exists(r) => /\ Len(match[r].participants) = 2
                       /\ match[r].participants[1] # match[r].participants[2]
    /\ \A t \in Tasks :
          tasks[t].pc \in {"fm_peer", "fm_claim"} \cup MintPhase =>
             tasks[t].cand # ArgSid(tasks[t])

\* a findMatch that read its own caller's entry first, skipped it, and is
\* writing a match with the next entry
C18_Witness ==
    \E t \in Tasks :
       /\ tasks[t].pc = "fm_hset_self" /\ tasks[t].i >= 1
       /\ Exists(tasks[t].mid)
       /\ match[tasks[t].mid].participants = <<tasks[t].cand, ArgSid(tasks[t])>>
       /\ Holds(queue[TargetKey(tasks[t])], ArgSid(tasks[t]))

\* C19 (bounded scan): a findMatch call evaluates at most MAX_CHECKS queue
\* entries before it gives up, also when every entry at the head of its
\* target queue is stale.
C19_BoundedScan == \A t \in Tasks : tasks[t].evals <= MAX_CHECKS

\* the room r was created and its destroyMatch has completed
Destroyed(r) ==
    /\ r \in MatchIds /\ r < nextMatch /\ match[r] = NoMatch
    /\ \A t \in Tasks : tasks[t].mid = r => tasks[t].pc \notin MintPhase

\* C20 (destroy is idempotent): a destroyMatch(R) that runs after a completed
\* destroyMatch(R) returns the empty participant list (there is no
\* counterparty to notify and no mapping to clear) and changes no session
\* record, no match record and no queue.
C20_DestroyIdempotent ==
    [][\A t \in Tasks :
          (At(t, "dm_get") /\ tasks'[t] # tasks[t] /\ Destroyed(tasks[t].roomId))
          => /\ session' = session /\ match' = match /\ queue' = queue
             /\ tasks'[t].pc \notin {"dm_hdel", "dm_del", "pd_get"}
             /\ tasks'[t].parts = <<>> /\ tasks'[t].peer = NoVal]_vars

\* a next on a room that was already destroyed has got the empty list back
\* and has gone on to look for a match for its caller
C20_Witness ==
    \E t \in Tasks :
       /\ tasks[t].kind = "next" /\ Destroyed(tasks[t].roomId)
       /\ tasks[t].pc = "fm_len" /\ tasks[t].ctx = "self"
       /\ tasks[t].peer = NoVal

C22_WithdrawTotal ==
    [][\A t \in Tasks :
          LET tk == tasks[t]
          IN (tk.kind = "leave" /\ session[tk.sid].socketId = tk.conn) =>
                /\ tasks'[t] = IdleTask => AllQueued'[tk.sid] = 0
                /\ (AllQueued[tk.sid] = 0 /\ session[tk.sid].matchId = NoRoom
                      /\ tk.sdMatch = NoRoom /\ tasks'[t] # tk) =>
                      /\ queue' = queue /\ match' = match
                      /\ \A s \in Sessions :
                            session'[s] = session[s]
                            \/ (s = tk.sid /\ session'[s] =
                                   [session[s] EXCEPT !.inQueue = "false"])]_vars

\* the events of evs that announce a room
Announcements(evs) ==
    {k \in 1 .. Len(evs) : evs[k].type \in {"matched", "ack-matched"}}

\* evs tells the connection `to` that it is in room r with peer p
Told(evs, to, r, p, init) ==
    \E k \in Announcements(evs) :
       /\ evs[k].to = to /\ evs[k].roomId = r
       /\ evs[k].peerId = p /\ evs[k].isInitiator = init

\* C23 (offer/answer roles): every match record is written with the session
\* whose findMatch removed the other from the queue as initiatorId; and on
\* each of the four paths that announce a new room (join-queue, the caller's
\* rematch in next, the counterparty's rematch in next or leave) exactly two
\* announcements are sent, one to each participant's connection, with the
\* same room id and each other's identifier: isInitiator = true to the
\* session whose findMatch ran, isInitiator = false to the one it removed.
C23_OfferAnswerRoles ==
    [][\A t \in Tasks :
          LET tk == tasks[t]
              me == ArgSid(tk)
          IN /\ (tk.pc = "fm_hset_match" /\ tasks'[t] # tk) =>
                   /\ match'[tk.mid].participants = <<tk.cand, me>>
                   /\ match'[tk.mid].initiatorId = me
             /\ (tk.pc \in {"jq_peer", "nx_self_peer", "nx_newpeer", "lv_newpeer"}
                   /\ tasks'[t] # tk) =>
                   /\ Cardinality(Announcements(emitted')) = 2
                   /\ Told(emitted', ArgSock(tk), tk.mid, tk.cand, TRUE)
                   /\ Told(emitted', session[tk.cand].socketId, tk.mid, me, FALSE)
                   /\ Exists(tk.mid) => match[tk.mid].initiatorId = me]_vars

\* the events of a counterparty rematch: the abandoned session B took C from
\* the queue and is the initiator of the new room
C23_Witness ==
    /\ Len(emitted) >= 2
    /\ emitted[1].type = "matched" /\ emitted[1].isInitiator
    /\ emitted[2].type = "matched" /\ ~emitted[2].isInitiator
    /\ emitted[1].roomId = emitted[2].roomId
    /\ Exists(emitted[1].roomId)
    /\ match[emitted[1].roomId].initiatorId = emitted[2].peerId

\* the handler is working on behalf of the counterparty it abandoned
ForPeer(tk) == tk.ctx \in {"peer", "lvpeer"}

\* C24 (notification order on counterparty loss): a next or leave that
\* abandons counterparty P starts working for P (rematch or re-queue) only
\* in the step that sends peer-skipped (next) or peer-left (leave) to P's
\* connection, and that step announces no room and changes no queue; every
\* later step of the handler that appends P to a queue or announces a room
\* to P's connection belongs to that work, so it comes after the
\* notification.
C24_NotifyFirst ==
    [][\A t \in Tasks :
          LET tk == tasks[t]
          IN (tk.kind \in {"next", "leave", "disconnect"} /\ tasks'[t] # tk) =>
                /\ (ForPeer(tasks'[t]) /\ ~ForPeer(tk)) =>
                      /\ tk.pc = "pd_get"
                      /\ emitted' =
                           <<Ev(IF tk.kind = "next" THEN "peer-skipped"
                                ELSE "peer-left",
                                session[tk.peer].socketId, NoRoom, NoVal, FALSE,
                                NoVal)>>
                      /\ tasks'[t].peerSock = session[tk.peer].socketId
                      /\ queue' = queue
                /\ (tk.peer # NoVal /\ ~ForPeer(tk)) =>
                      /\ AllQueued'[tk.peer] <= AllQueued[tk.peer]
                      /\ \A k \in Announcements(emitted') :
                            emitted'[k].to # session[tk.peer].socketId]_vars

\* B was abandoned by a next, has been sent peer-skipped, and the handler
\* has gone on to look for a new match for B
C24_Witness ==
    \E t \in Tasks :
       /\ tasks[t].kind = "next" /\ tasks[t].ctx = "peer"
       /\ tasks[t].pc = "fm_len" /\ tasks[t].peer # NoVal
       /\ emitted = <<Ev("peer-skipped", tasks[t].peerSock, NoRoom, NoVal,
                         FALSE, NoVal)>>

\* C25 (detach implies leave): the connection currently bound to session S
\* closes while S is in room R.  When the processing of that disconnect
\* completes, R is destroyed and neither S nor its counterparty is mapped to
\* R any more; this is also so when the socket:<id> key has expired.
C25_DetachImpliesLeave ==
    [][\A t \in Tasks :
          LET tk == tasks[t]
              s == ConnSession[tk.conn]
          IN (tk.kind = "disconnect" /\ tasks'[t] = IdleTask) =>
                /\ session'[s].matchId = NoRoom
                /\ \A r \in MatchIds :
                      match'[r] # NoMatch =>
                         \A k \in 1 .. Len(match'[r].participants) :
                            match'[r].participants[k] # s
                /\ \A p \in Sessions : session'[p].peerId # s]_vars

\* C26 (per-connection command order): a leave received after a join-queue
\* on the same connection reads or writes the store only after the
\* join-queue has finished, and once both have completed the session is in
\* no queue.
C26_CommandOrder ==
    /\ \A t, u \in Tasks :
          (/\ tasks[t].kind = "join" /\ tasks[u].kind = "leave"
           /\ tasks[t].conn = tasks[u].conn) => tasks[u].pc = "lv_read"
    /\ (cmds = 2 /\ AllIdle) => AllQueued["A"] = 0

\* C27 (authentication gate): no handler runs for a connection that was
\* rejected or has not completed the handshake; a connection is bound only
\* when the session of its token still has a record in the store; and no
\* record is written for a session that has none.
C27_AuthGate ==
    [][/\ \A t \in Tasks :
             ~Idle(t) => connState[tasks[t].conn] \notin {"new", "rejected"}
       /\ \A c \in Conns :
             (connState[c] = "new" /\ connState'[c] = "attaching") =>
                session[ConnSession[c]] # NoSession
       /\ \A s \in Sessions :
             session[s] = NoSession => session'[s] = NoSession]_vars

\* C28 (sender authorization): a signal is forwarded only when the sender's
\* current room is the room named in the command; a signal from a session
\* that has no current room (it never had one, or its room has been
\* destroyed) is delivered to nobody and produces no error event, whatever
\* room value the client supplies, an omitted one (NoRoom) included.
C28_SenderAuthorized ==
    [][\A t \in Tasks :
          LET tk == tasks[t]
          IN (tk.kind = "signal" /\ tasks'[t] # tk) =>
                /\ (\E k \in 1 .. Len(emitted') : emitted'[k].type = "signal") =>
                      session[tk.sid].matchId = tk.roomId
                /\ session[tk.sid].matchId = NoRoom =>
                      \A k \in 1 .. Len(emitted') :
                         emitted'[k].type \notin {"signal", "error"}]_vars

\* the calls of impl admitted with a timestamp in from .. from + n - 1
RECURSIVE AdmittedIn(_, _, _)
AdmittedIn(impl, from, n) ==
    IF n = 0 \/ from > RlMaxTime THEN 0
    ELSE rl.admitted[impl][from] + AdmittedIn(impl, from + 1, n - 1)

\* C29: rate-limit monotonicity: for every window of length windowMs, each
\* checkRateLimit implementation answers allowed = true (from its own count)
\* for at most maxRequests calls whose timestamps fall in that window, in
\* whatever order concurrent calls for the identifier reach the store.
C29_Monotonicity ==
    \A impl \in Limiters, from \in RlTimes :
        AdmittedIn(impl, from, RlWindow) <= RlMax

\* C30: the rate limiter fails open: a call whose exec() threw, or that found
\* no store client, returned allowed = true with remaining = maxRequests.
C30_FailsOpen ==
    rl.last.path \in {"catch", "noclient"} =>
        /\ rl.last.allowed
        /\ rl.last.remaining = RlMax

\* exec() threw for a call made while the sorted set already held maxRequests
\* members inside the window, and the call was allowed all the same
C30_Witness ==
    /\ rl.last.path = "catch"
    /\ zCard(zRemRangeByScore(rl.zset[rl.last.impl], 0,
                              rl.now - RlWindow)) >= RlMax
    /\ rl.last.allowed

\* C36 (frame of destroyMatch): a destroyMatch(R) step that reaches a
\* participant of R whose session record points at a different room R'
\* leaves that record's matchId and peerId as they are.
C36_DestroyFrame ==
    [][\A t \in Tasks :
          (At(t, "dm_hdel") /\ tasks'[t] # tasks[t])
          => LET s == tasks[t].parts[tasks[t].k]
             IN (session[s].matchId \notin {NoRoom, tasks[t].roomId})
                => /\ session'[s].matchId = session[s].matchId
                   /\ session'[s].peerId = session[s].peerId]_vars

\* C37 (queue flag consistency): whenever no handler is mid-execution, a
\* session record has inQueue = "true" if and only if its identifier is
\* present in the queue list keyed by the record's own mode and
\* connectionType fields and in no other queue list.
C37_QueueFlag ==
    AllIdle =>
       \A s \in Sessions :
          LET rec == session[s]
              own == getQueueKey(rec.mode, rec.connectionType)
          IN (rec.inQueue = "true")
             <=> /\ own \in QueueKeys /\ Holds(queue[own], s)
                 /\ \A q \in QueueKeys \ {own} : ~Holds(queue[q], s)

\* the connected session s waits: its record says inQueue = "true" and names
\* no room, and s is in the queue list of the record's mode and medium
Waits(s) ==
    LET rec == session[s]
    IN /\ rec.inQueue = "true" /\ rec.matchId = NoRoom
       /\ rec.socketId # NoSock /\ connState[rec.socketId] = "open"
       /\ Holds(queue[getQueueKey(rec.mode, rec.connectionType)], s)

\* C38 (no missed pairing): whenever no handler is mid-execution, no two
\* distinct connected sessions both wait in queues of the same medium with
\* intents that are complementary under the pairing rule.
C38_NoMissedPairing ==
    AllIdle =>
       \A a, b \in Sessions :
          (a # b /\ Waits(a) /\ Waits(b)
           /\ session[a].connectionType = session[b].connectionType)
          => ~Complementary(session[a].mode, session[b].mode)

\* the members of z with a score in the window of length RlWindow that ends
\* at the timestamp at
Trailing(z, at) ==
    zCard(zRemRangeByScore(zRemRangeByScore(z, 0, at - RlWindow),
                           at + 1, RlMaxTime))

\* a store-backed check has just come back from the store with its count
Counted ==
    /\ Len(rl'.pending) = Len(rl.pending) - 1
    /\ rl'.last.path = "window"

\* C39 (denied requests are recorded too): a store-backed checkRateLimit
\* answers allowed = true exactly when fewer than maxRequests of the checks
\* the store ran before it, allowed or denied, have timestamps inside the
\* window that ends at its own timestamp.
C39_CountsDenied ==
    [][Counted =>
         (rl'.last.allowed
          <=> Trailing(rl.everAdded[rl'.last.impl], rl'.last.at) < RlMax)]_vars

\* C31 (auto-disconnect threshold): counted from a report counter that did
\* not exist, the responses to the first and the second accepted report
\* against a target carry shouldAutoDisconnect = false and the response to
\* the third carries shouldAutoDisconnect = true.
C31_Threshold ==
    web.resp.status = 200 =>
       /\ web.resp.nth \in {1, 2} => ~web.resp.auto
       /\ web.resp.nth = 3 => web.resp.auto

\* the third report against A in a row has been answered, with the flag set
C31_Witness ==
    /\ web.resp.status = 200 /\ web.resp.nth = 3 /\ web.resp.auto
    /\ web.reported["A"] = 3

\* the report keys an accepted report changes
ReportKeys == <<web.reports, web.byId, web.reportCount, web.reported>>

\* the request in slot r carries its reporter as reportedSessionId and has
\* just been answered
SelfAnswered(r) ==
    /\ web.reqs[r].pc = "limit" /\ web'.reqs[r].pc = "idle"
    /\ web.reqs[r].complete
    /\ web.reqs[r].reporter = web.reqs[r].target

\* C32 as stated: every self-report is answered with status 400 and changes
\* none of reports:list, the report:<id> records, the target's reportCount
\* and its reported:<session> counter.
C32_SelfReport400 ==
    [][\A r \in ReqSlots :
          SelfAnswered(r) => /\ web'.resp.status = 400
                             /\ ReportKeys' = ReportKeys]_vars

\* C32 (self-reports are rejected without effect): a self-report is answered
\* with status 429 when its reporter is over the report rate limit and with
\* status 400 otherwise, it is never stored, and it changes none of
\* reports:list, the report:<id> records, the target's reportCount and its
\* reported:<session> counter.
C32_SelfReportRejected ==
    [][\A r \in ReqSlots :
          /\ (web.reqs[r].pc = "limit" /\ web.reqs[r].complete
              /\ web.reqs[r].reporter = web.reqs[r].target
              /\ web'.reqs[r] # web.reqs[r])
             => web'.reqs[r].pc = "idle"
          /\ SelfAnswered(r)
             => /\ web'.resp.status =
                      IF web.checks[web.reqs[r].reporter] >= REPORT_MAX
                      THEN 429 ELSE 400
                /\ ReportKeys' = ReportKeys]_vars

\* a self-report has been turned down while a report against the same
\* session was stored
C32_Witness ==
    /\ web.resp.error = "self" /\ web.resp.status = 400
    /\ Len(web.reports) > 0 /\ web.reported["A"] > 0

\* C33 (one-shot auto-disconnect): within the lifetime of a target's counter
\* shouldAutoDisconnect = true is returned on the report that reaches the
\* threshold and on no later one.
C33_OneShot ==
    (web.resp.status = 200 /\ web.resp.auto)
    => web.resp.nth = AUTO_DISCONNECT_THRESHOLD

\* C34 (re-queue on the polling route): a counterparty abandoned by a skip
\* or a leave is pushed onto the queue of its own declared intent and of
\* the room's medium, also in a hire/freelance room created by the session
\* that abandons it; and every room pairs hire only with freelance.
C34_RequeueOwnIntent ==
    /\ web.requeued.peer # NoVal
       => /\ web.requeued.mode = web.intent[web.requeued.peer]
          /\ web.requeued.type = web.requeued.roomType
    /\ \A m \in RoomIds :
          LET i == web.room[m].intents
          IN (i # <<>> /\ (i[1] = "hire" \/ i[2] = "hire"))
             => {i[1], i[2]} = {"hire", "freelance"}

\* C35 (at-most-once delivery on the polling route): every stored signal is
\* carried by at most one get-signals response, however get-signals and
\* signal requests overlap.
C35_AtMostOnce == \A i \in 1 .. MaxSignals : web.delivered[i] <= 1

====
